---- MODULE Spec2Model ----
(***************************************************************************)
(* Research-passage pipeline: ingestion (src/api/ingest.py) and retrieval  *)
(* (src/api/retriever.py).                                                 *)
(*                                                                         *)
(* Text is a sequence of one-character strings, indexed from 1; the Python *)
(* offsets of the source are kept 0-based, so text[i] of the source is     *)
(* At(text, i) here.  Python values of unknown type (parsed JSON) are the  *)
(* tagged records PNone, PBool, PInt, PStr, PList, PDict.                  *)
(*                                                                         *)
(* Specifications:                                                         *)
(*   Spec         the calls of the API, each taken whole                   *)
(*   SpecConc     ingest taken statement by statement, readers between     *)
(*   SpecExtract  _extract_balanced_braces on every short text             *)
(*   SpecAlign    _filter_by_alignment on short lists of passages          *)
(*   SpecSection  the section boosting of retrieve on short lists          *)
(*   SpecRank     retrieve and BM25.score on the corpus of one ticker      *)
(*   SpecPar      calls of retrieve interleaved step by step               *)
(*   SpecChunk    the chunker on records of one or two field groups        *)
(*   SpecNormalize  _js_to_dict on object literals with one string         *)
(*   SpecScore    BM25.score on corpora of short overview passages         *)
(***************************************************************************)
EXTENDS Integers, Sequences, FiniteSets, TLC

VARIABLES
    heap,           \* the Passage objects alive in the store, by object id 1..Len(heap)
    _store,         \* ingest._store: insertion-ordered dict ticker -> list of object ids
    _all_passages,  \* ingest._all_passages: list of object ids
    ing,            \* the frame of an ingest call in progress, or Idle
    call,           \* the arguments of the last call
    ret,            \* what the last call returned or raised
    heap0           \* history: heap as the last completed ingest left it

vars == <<heap, _store, _all_passages, ing, call, ret, heap0>>

\* ------------------------------------------------------------------ text

At(text, i) == text[i + 1]

Slice(text, lo, hi) == SubSeq(text, lo + 1, hi)

LowerCase == <<"a","b","c","d","e","f","g","h","i","j","k","l","m","n","o","p","q","r","s","t","u","v","w","x","y","z">>

UpperCase == <<"A","B","C","D","E","F","G","H","I","J","K","L","M","N","O","P","Q","R","S","T","U","V","W","X","Y","Z">>

Digits == <<"0","1","2","3","4","5","6","7","8","9">>

Range(s) == {s[i] : i \in 1..Len(s)}

IsLower(c) == c \in Range(LowerCase)

IsUpper(c) == c \in Range(UpperCase)

IsDigit(c) == c \in Range(Digits)

\* the whitespace of \s and of str.strip() within the alphabet of the inputs
Spaces == {" ", "\n", "\t", "\r"}

IsSpace(c) == c \in Spaces

\* the characters of \w within the alphabet of the inputs
WordChars == Range(LowerCase) \cup Range(UpperCase) \cup Range(Digits) \cup {"_"}

IsWord(c) == c \in WordChars

IndexIn(s, c) == CHOOSE i \in 1..Len(s) : s[i] = c

LowerChar(c) == IF IsUpper(c) THEN LowerCase[IndexIn(UpperCase, c)] ELSE c

UpperChar(c) == IF IsLower(c) THEN UpperCase[IndexIn(LowerCase, c)] ELSE c

Lower(text) == [i \in 1..Len(text) |-> LowerChar(text[i])]

Upper(text) == [i \in 1..Len(text) |-> UpperChar(text[i])]

\* text[i:].startswith(pat)
StartsAt(text, i, pat) ==
    /\ i + Len(pat) <= Len(text)
    /\ \A j \in 1..Len(pat) : text[i + j] = pat[j]

\* The scans of the source advance one character per iteration; here a scan goes in
\* one step to the next character its loop body does not skip.

\* the least offset j >= i with text[j] in cs, or len(text) when there is none
NextIn(text, i, cs) ==
    IF \E j \in i..(Len(text) - 1) : At(text, j) \in cs
    THEN CHOOSE j \in i..(Len(text) - 1) :
             At(text, j) \in cs /\ \A k \in i..(j - 1) : At(text, k) \notin cs
    ELSE IF i > Len(text) THEN i ELSE Len(text)

\* the least offset j >= i with text[j] not in cs, or len(text) when there is none:
\* the end of a greedy run of cs begun at i
NextNotIn(text, i, cs) ==
    IF \E j \in i..(Len(text) - 1) : At(text, j) \notin cs
    THEN CHOOSE j \in i..(Len(text) - 1) :
             At(text, j) \notin cs /\ \A k \in i..(j - 1) : At(text, k) \in cs
    ELSE IF i > Len(text) THEN i ELSE Len(text)

\* s.find(pat, i): the least offset j >= i where pat starts, or -1
FindFrom(s, pat, i) ==
    IF \E j \in i..(Len(s) - Len(pat)) : StartsAt(s, j, pat)
    THEN CHOOSE j \in i..(Len(s) - Len(pat)) :
             StartsAt(s, j, pat) /\ \A k \in i..(j - 1) : ~StartsAt(s, k, pat)
    ELSE -1

\* pat in text
Contains(text, pat) == \E i \in 0..(Len(text) - Len(pat)) : StartsAt(text, i, pat)

\* ------------------------------------------------------------------ Object Extractor

RECURSIVE ScanBraces(_, _, _, _, _, _)
\* ScanBracesAt without the escape: in a string a backslash is one more character
ScanBracesNoEscape(text, start, j, depth, in_string, string_char) ==
    IF j >= Len(text) THEN <<>>
    ELSE IF in_string
    THEN ScanBraces(text, start, j + 1, depth, At(text, j) # string_char, string_char)
    ELSE IF At(text, j) \in {"'", "\""}
    THEN ScanBraces(text, start, j + 1, depth, TRUE, At(text, j))
    ELSE IF At(text, j) = "{"
    THEN ScanBraces(text, start, j + 1, depth + 1, FALSE, string_char)
    ELSE IF depth - 1 = 0
    THEN Slice(text, start, j + 1)
    ELSE ScanBraces(text, start, j + 1, depth - 1, FALSE, string_char)

\* the body of the while loop of _extract_balanced_braces at offset j, the next offset
\* from i whose character the state of the loop reacts to
ScanBracesAt(text, start, j, depth, in_string, string_char) ==
    IF j >= Len(text) THEN <<>>
    ELSE IF in_string
    THEN IF At(text, j) = "\\" /\ j + 1 < Len(text)
         THEN ScanBraces(text, start, j + 2, depth, TRUE, string_char)
         ELSE ScanBraces(text, start, j + 1, depth, At(text, j) # string_char, string_char)
    ELSE IF At(text, j) \in {"'", "\""}
    THEN ScanBraces(text, start, j + 1, depth, TRUE, At(text, j))
    ELSE IF At(text, j) = "{"
    THEN ScanBraces(text, start, j + 1, depth + 1, FALSE, string_char)
    ELSE IF depth - 1 = 0
    THEN Slice(text, start, j + 1)
    ELSE ScanBraces(text, start, j + 1, depth - 1, FALSE, string_char)

\* the while loop of _extract_balanced_braces from offset i on
ScanBraces(text, start, i, depth, in_string, string_char) ==
    ScanBracesAt(text, start,
                 NextIn(text, i, IF in_string THEN {"\\", string_char}
                                 ELSE {"'", "\"", "{", "}"}),
                 depth, in_string, string_char)

\* the block cut at the first closing brace after start, whatever encloses it: an
\* extractor that tracks neither nesting nor string literals
FirstClose(text, start) ==
    IF start >= Len(text) \/ At(text, start) # "{" THEN <<>>
    ELSE IF NextIn(text, start, {"}"}) >= Len(text) THEN <<>>
    ELSE Slice(text, start, NextIn(text, start, {"}"}) + 1)

\* _extract_balanced_braces(text, start): the block, or the empty text
_extract_balanced_braces(text, start) ==
    IF start >= Len(text) \/ At(text, start) # "{"
    THEN <<>>
    ELSE ScanBraces(text, start, start, 0, FALSE, "")

\* ------------------------------------------------------------------ Python values

PNone == [k |-> "None"]

PBool(b) == [k |-> "bool", b |-> b]

PInt(n) == [k |-> "int", n |-> n]

\* a float, kept as the text of its shortest repr
PFloat(text) == [k |-> "float", text |-> text]

PStr(s) == [k |-> "str", s |-> s]

PList(xs) == [k |-> "list", xs |-> xs]

\* a dict keeps its insertion order: keys ks[i] with values vs[i]
PDict(ks, vs) == [k |-> "dict", ks |-> ks, vs |-> vs]

EmptyDict == PDict(<<>>, <<>>)

IsDict(v) == v.k = "dict"

IsList(v) == v.k = "list"

IsStr(v) == v.k = "str"

HasKey(d, key) == \E i \in 1..Len(d.ks) : d.ks[i] = key

KeyIndex(d, key) == CHOOSE i \in 1..Len(d.ks) : d.ks[i] = key

\* d.get(key, default)
DictGet(d, key, default) == IF HasKey(d, key) THEN d.vs[KeyIndex(d, key)] ELSE default

\* d[key] = value
DictSet(d, key, value) ==
    IF HasKey(d, key)
    THEN [d EXCEPT !.vs[KeyIndex(d, key)] = value]
    ELSE [d EXCEPT !.ks = Append(@, key), !.vs = Append(@, value)]

\* bool(v)
Truthy(v) ==
    CASE v.k = "None" -> FALSE
      [] v.k = "bool" -> v.b
      [] v.k = "int" -> v.n # 0
      [] v.k = "float" -> \E i \in 1..Len(v.text) : v.text[i] \in Range(Digits) \ {"0"}
      [] v.k = "str" -> v.s # <<>>
      [] v.k = "list" -> v.xs # <<>>
      [] v.k = "dict" -> v.ks # <<>>

\* ------------------------------------------------------------------ discovery passes

\* the end of a greedy \s* begun at offset i
SkipSpace(text, i) == NextNotIn(text, i, Spaces)

SkipUpper(text, i) == NextNotIn(text, i, Range(UpperCase))

SkipWord(text, i) == NextNotIn(text, i, WordChars)

\* the end of a match of \{ at offset br, or -1
MatchBrace(text, br) == IF br < Len(text) /\ At(text, br) = "{" THEN br + 1 ELSE -1

\* the end of a match of =\s*\{ at offset eq, or -1
MatchEquals(text, eq) ==
    IF eq < Len(text) /\ At(text, eq) = "=" THEN MatchBrace(text, SkipSpace(text, eq + 1))
    ELSE -1

\* the end of a match of \s*=\s*\{ begun at offset i, or -1
MatchAssignBrace(text, i) == MatchEquals(text, SkipSpace(text, i))

\* a match whose group 1 is ticker and whose end is end, or no match when end is -1
StockMatch(ticker, end) == [ok |-> end >= 0, ticker |-> ticker, end |-> end]

\* a match of ([A-Z]{2,5})\s*=\s*\{ whose group 1 is text[lo:hi], hi the end of the
\* greedy run of capitals: the group takes at most five of them
MatchTicker(text, lo, hi) ==
    IF hi - lo >= 2 /\ hi - lo <= 5
    THEN StockMatch(Slice(text, lo, hi), MatchAssignBrace(text, hi))
    ELSE StockMatch(<<>>, -1)

\* a match of STOCK_DATA\.([A-Z]{2,5})\s*=\s*\{ begun at offset pos, where the prefix
\* STOCK_DATA. starts: [ok, ticker (group 1), end (match.end())]
MatchStock(text, pos) ==
    MatchTicker(text, pos + Len(<<"S","T","O","C","K","_","D","A","T","A",".">>), SkipUpper(text, pos + Len(<<"S","T","O","C","K","_","D","A","T","A",".">>)))

RECURSIVE FindStocks(_, _)
\* the matches from the occurrence of the prefix at offset at on, m the match tried there
FindStocksAt(html, at, m) ==
    IF m.ok THEN <<m>> \o FindStocks(html, m.end) ELSE FindStocks(html, at + 1)

\* the matches from the next occurrence of the prefix on, at its offset or -1
FindStocksFrom(html, at) ==
    IF at < 0 THEN <<>> ELSE FindStocksAt(html, at, MatchStock(html, at))

\* pattern.finditer(html): the matches from offset pos on, left to right, not overlapping
FindStocks(html, pos) == FindStocksFrom(html, FindFrom(html, <<"S","T","O","C","K","_","D","A","T","A",".">>, pos))

\* a match of \s+NAME\s*=\s*\{ begun at offset sp, nm the end of the run of spaces:
\* match.end(), or -1
MatchName(text, sp, nm, name) ==
    IF nm > sp /\ StartsAt(text, nm, name) THEN MatchAssignBrace(text, nm + Len(name))
    ELSE -1

\* a match of const\s+NAME\s*=\s*\{ begun at offset pos, where const starts:
\* match.end(), or -1
MatchConst(text, pos, name) ==
    MatchName(text, pos + Len(<<"c","o","n","s","t">>), SkipSpace(text, pos + Len(<<"c","o","n","s","t">>)), name)

RECURSIVE SearchConst(_, _, _)
\* the leftmost match from the occurrence of const at offset at on, end the end of the
\* match tried there
SearchConstAt(html, at, end, name) ==
    IF end >= 0 THEN end ELSE SearchConst(html, at + 1, name)

SearchConstFrom(html, at, name) ==
    IF at < 0 THEN -1 ELSE SearchConstAt(html, at, MatchConst(html, at, name), name)

\* pattern.search(html): match.end() of the leftmost match, or -1
SearchConst(html, pos, name) == SearchConstFrom(html, FindFrom(html, <<"c","o","n","s","t">>, pos), name)
\* ------------------------------------------------------------------ Literal Normalizer

\* the end of a greedy [^\n]* begun at offset i
SkipLine(s, i) == NextIn(s, i, {"\n"})

RECURSIVE StripLineComments(_, _)
\* the text from offset i on with the comment at offset j (-1: none) and the later ones cut
CutLineComment(s, i, j) ==
    IF j < 0 THEN Slice(s, i, Len(s))
    ELSE Slice(s, i, j) \o StripLineComments(s, SkipLine(s, j + 2))

\* re.sub(r"//[^\n]*", "", s), from offset i on
StripLineComments(s, i) == CutLineComment(s, i, FindFrom(s, <<"/","/">>, i))

RECURSIVE StripBlockComments(_, _)
\* the text from offset i on with the comment opened at offset j and closed at offset e
\* (-1: none) and the later ones cut; an opener with no closer after it matches nothing,
\* and then no later opener does either
CutBlockComment(s, i, j, e) ==
    IF j < 0 \/ e < 0 THEN Slice(s, i, Len(s))
    ELSE Slice(s, i, j) \o StripBlockComments(s, e + 2)

\* the closer of the comment opened at offset j (-1: no opener)
CloseBlockComment(s, i, j) ==
    CutBlockComment(s, i, j, IF j < 0 THEN -1 ELSE FindFrom(s, <<"*","/">>, j + 2))

\* re.sub(r"/\*.*?\*/", "", s, flags=re.DOTALL), from offset i on
StripBlockComments(s, i) == CloseBlockComment(s, i, FindFrom(s, <<"/","*">>, i))

IsIdentStart(c) == IsLower(c) \/ IsUpper(c) \/ c = "_"

KeyMatch(ok, name, end) == [ok |-> ok, name |-> name, end |-> end]

\* a match of \s*: at offset t, the end of the run of spaces after the name s[q:r]
MatchColon(s, q, r, t) ==
    KeyMatch(t < Len(s) /\ At(s, t) = ":", Slice(s, q, r), t + 1)

\* a match of ([a-zA-Z_]\w*)\s*: at offset q, r the end of the run of word characters
MatchIdent(s, q, r) ==
    IF q < Len(s) /\ IsIdentStart(At(s, q)) THEN MatchColon(s, q, r, SkipSpace(s, r))
    ELSE KeyMatch(FALSE, <<>>, q)

\* a match of \s*([a-zA-Z_]\w*)\s*: at offset q, the end of the run of spaces
MatchKeyAt(s, q) == MatchIdent(s, q, SkipWord(s, q))

\* a match of (?<=[{,\n])\s*([a-zA-Z_]\w*)\s*: begun at offset p, which follows one of
\* the characters of the lookbehind: [ok, name, end]
MatchKey(s, p) == MatchKeyAt(s, SkipSpace(s, p))

RECURSIVE QuoteKeys(_, _)
\* the text from offset p on, m the match tried at offset c + 1
QuoteKeysAt(s, p, c, m) ==
    IF m.ok THEN Slice(s, p, c + 1) \o <<" ","\"">> \o m.name \o <<"\"",":">> \o QuoteKeys(s, m.end)
    ELSE Slice(s, p, c + 2) \o QuoteKeys(s, c + 2)

\* the text from offset p on, c the offset from p - 1 on of the next character of the
\* lookbehind
QuoteKeysFrom(s, p, c) ==
    IF c + 1 >= Len(s) THEN Slice(s, p, Len(s)) ELSE QuoteKeysAt(s, p, c, MatchKey(s, c + 1))

\* re.sub(r'(?<=[{,\n])\s*([a-zA-Z_]\w*)\s*:', r' "\1":', s), from offset p on: a match
\* can only begin right after one of the characters of the lookbehind
QuoteKeys(s, p) ==
    QuoteKeysFrom(s, p, NextIn(s, IF p >= 1 THEN p - 1 ELSE 0, {"{", ",", "\n"}))

\* the characters scanned and the offset the scan stopped at
Scanned(out, i) == [out |-> out, i |-> i]

\* head, then what the scan rest went on to copy
Then(head, rest) == Scanned(head \o rest.out, rest.i)

RECURSIVE CopyDouble(_, _)
\* the inner loop over a double-quoted string from offset i on, j the offset of the next
\* quote or backslash
CopyDoubleAt(s, i, j) ==
    IF j >= Len(s) \/ At(s, j) = "\"" THEN Scanned(Slice(s, i, j), j)
    ELSE IF j + 1 < Len(s) THEN Then(Slice(s, i, j + 2), CopyDouble(s, j + 2))
    ELSE Then(Slice(s, i, j + 1), CopyDouble(s, j + 1))

\* the inner loop over a double-quoted string, begun after its opening quote:
\* [out, i] with i the offset of the closing quote (or len(s))
CopyDouble(s, i) == CopyDoubleAt(s, i, NextIn(s, i, {"\"", "\\"}))

\* every escape of a single-quoted string passed through as it is written
KeepEscape(c) == <<"\\", c>>

\* what the single-quoted branch appends for the character c after a backslash
EscapeInSingle(c) ==
    CASE c = "'" -> <<"'">>
      [] c = "\"" -> <<"\\","\"">>
      [] c = "\\" -> <<"\\","\\">>
      [] c = "n" -> <<"\\","n">>
      [] c = "t" -> <<"\\","t">>
      [] c = "r" -> <<"\\","r">>
      [] OTHER -> <<"\\", c>>

RECURSIVE CopySingle(_, _)
\* the inner loop over a single-quoted string from offset i on, j the offset of the next
\* quote or backslash
CopySingleAt(s, i, j) ==
    IF j >= Len(s) \/ At(s, j) = "'" THEN Scanned(Slice(s, i, j), j)
    ELSE IF At(s, j) = "\\"
    THEN IF j + 1 < Len(s)
         THEN Then(Slice(s, i, j) \o EscapeInSingle(At(s, j + 1)), CopySingle(s, j + 2))
         ELSE Then(Slice(s, i, j), CopySingle(s, j + 1))
    ELSE Then(Slice(s, i, j) \o <<"\\","\"">>, CopySingle(s, j + 1))

\* the inner loop over a single-quoted string, begun after its opening quote:
\* [out, i] with i the offset of the closing quote (or len(s))
CopySingle(s, i) == CopySingleAt(s, i, NextIn(s, i, {"'", "\\", "\""}))

RECURSIVE SingleToDoubleFrom(_, _)
\* the text after a double-quoted string whose characters are body.out
AfterDouble(s, body) ==
    IF body.i < Len(s)
    THEN <<"\"">> \o body.out \o <<"\"">> \o SingleToDoubleFrom(s, body.i + 1)
    ELSE <<"\"">> \o body.out

\* the text after a single-quoted string whose characters are body.out
AfterSingle(s, body) ==
    <<"\"">> \o body.out \o <<"\"">>
        \o SingleToDoubleFrom(s, IF body.i < Len(s) THEN body.i + 1 ELSE body.i)

\* the outer loop from offset i on, j the offset of the next quote
SingleToDoubleAt(s, i, j) ==
    IF j >= Len(s) THEN Slice(s, i, Len(s))
    ELSE IF At(s, j) = "\"" THEN Slice(s, i, j) \o AfterDouble(s, CopyDouble(s, j + 1))
    ELSE Slice(s, i, j) \o AfterSingle(s, CopySingle(s, j + 1))

\* the outer loop of _single_to_double_quotes from offset i on
SingleToDoubleFrom(s, i) == SingleToDoubleAt(s, i, NextIn(s, i, {"\"", "'"}))

_single_to_double_quotes(s) == SingleToDoubleFrom(s, 0)

RECURSIVE RemoveTrailingCommas(_, _)
\* the text from offset i on, j the offset of the next comma and k the end of the run of
\* spaces after it
RemoveCommaAt(s, i, j, k) ==
    IF j >= Len(s) THEN Slice(s, i, Len(s))
    ELSE IF k < Len(s) /\ At(s, k) \in {"}", "]"}
    THEN Slice(s, i, j) \o <<At(s, k)>> \o RemoveTrailingCommas(s, k + 1)
    ELSE Slice(s, i, j + 1) \o RemoveTrailingCommas(s, j + 1)

RemoveCommaFrom(s, i, j) == RemoveCommaAt(s, i, j, SkipSpace(s, j + 1))

\* re.sub(r",\s*([}\]])", r"\1", s), from offset i on
RemoveTrailingCommas(s, i) == RemoveCommaFrom(s, i, NextIn(s, i, {","}))

RECURSIVE Replace(_, _, _, _)
\* the text from offset i on, j the offset of the next occurrence of old or -1
ReplaceAt(s, old, new, i, j) ==
    IF j < 0 THEN Slice(s, i, Len(s))
    ELSE Slice(s, i, j) \o new \o Replace(s, old, new, j + Len(old))

\* s.replace(old, new), from offset i on
Replace(s, old, new, i) == ReplaceAt(s, old, new, i, FindFrom(s, old, i))

\* the text _js_to_dict hands to json.loads
Normalize(js_str) ==
    Replace(RemoveTrailingCommas(
                _single_to_double_quotes(
                    QuoteKeys(StripBlockComments(StripLineComments(js_str, 0), 0), 0)), 0),
            <<":"," ","u","n","d","e","f","i","n","e","d">>, <<":"," ","n","u","l","l">>, 0)
\* ------------------------------------------------------------------ json.loads

\* the decoder's whitespace: space, tab, newline, carriage return
SkipJsonSpace(s, i) == NextNotIn(s, i, {" ", "\t", "\n", "\r"})

\* what a scan gives: the value scanned and the offset after it, or ok = FALSE where the
\* decoder raises JSONDecodeError
Scan(v, i) == [ok |-> TRUE, v |-> v, i |-> i]

JsonFail == [ok |-> FALSE, v |-> PNone, i |-> 0]

\* the character a one-letter escape stands for, or "" when the escape is invalid
\* (\b, \f and \uXXXX are valid JSON outside the alphabet of the inputs)
Unescape(c) ==
    CASE c = "\"" -> "\""
      [] c = "\\" -> "\\"
      [] c = "/" -> "/"
      [] c = "n" -> "\n"
      [] c = "r" -> "\r"
      [] c = "t" -> "\t"
      [] OTHER -> ""

RECURSIVE ScanString(_, _)
\* the characters head, then the rest of the string
ThenString(head, rest) == IF rest.ok THEN Scan(head \o rest.v, rest.i) ELSE JsonFail

\* the string from offset i on, j the offset of the next quote, backslash or control
\* character
ScanStringAt(s, i, j) ==
    IF j >= Len(s) \/ At(s, j) \in {"\n", "\t", "\r"} THEN JsonFail
    ELSE IF At(s, j) = "\"" THEN Scan(Slice(s, i, j), j + 1)
    ELSE IF j + 1 >= Len(s) \/ Unescape(At(s, j + 1)) = "" THEN JsonFail
    ELSE ThenString(Slice(s, i, j) \o <<Unescape(At(s, j + 1))>>, ScanString(s, j + 2))

\* py_scanstring(s, i, strict=True), i the offset after the opening quote
ScanString(s, i) == ScanStringAt(s, i, NextIn(s, i, {"\"", "\\", "\n", "\t", "\r"}))

SkipDigits(s, i) == NextNotIn(s, i, Range(Digits))

DigitValue(c) == IndexIn(Digits, c) - 1

RECURSIVE DigitsValue(_)
DigitsValue(ds) ==
    IF ds = <<>> THEN 0
    ELSE 10 * DigitsValue(SubSeq(ds, 1, Len(ds) - 1)) + DigitValue(ds[Len(ds)])

\* the number s[i:fr] whose integer part is s[lo:hi]
NumberValue(s, i, neg, lo, hi, fr) ==
    IF hi = lo THEN JsonFail
    ELSE IF fr > hi THEN Scan(PFloat(Slice(s, i, fr)), fr)
    ELSE Scan(PInt(IF neg THEN 0 - DigitsValue(Slice(s, lo, hi))
                   ELSE DigitsValue(Slice(s, lo, hi))), hi)

\* the fraction (\.\d+)? at offset hi
ScanFraction(s, i, neg, lo, hi) ==
    NumberValue(s, i, neg, lo, hi,
                IF hi + 1 < Len(s) /\ At(s, hi) = "." /\ IsDigit(At(s, hi + 1))
                THEN SkipDigits(s, hi + 1)
                ELSE hi)

\* the integer part (0|[1-9]\d*) at offset lo
ScanInteger(s, i, neg, lo) ==
    ScanFraction(s, i, neg, lo,
                 IF lo < Len(s) /\ At(s, lo) = "0" THEN lo + 1 ELSE SkipDigits(s, lo))

\* NUMBER_RE (-?(?:0|[1-9]\d*))(\.\d+)?([eE][-+]?\d+)? at offset i; exponents are
\* outside the alphabet of the inputs
ScanNumber(s, i) ==
    IF i < Len(s) /\ At(s, i) = "-" THEN ScanInteger(s, i, TRUE, i + 1)
    ELSE ScanInteger(s, i, FALSE, i)

RECURSIVE ScanValue(_, _)
RECURSIVE ScanMembers(_, _, _)
RECURSIVE ScanElements(_, _, _)

\* JSONObject after the pairs d, q the offset after a comma and the spaces behind it
NextMember(s, q, d) ==
    IF q < Len(s) /\ At(s, q) = "\"" THEN ScanMembers(s, q + 1, d) ELSE JsonFail

\* JSONObject after the pairs d, nxt the offset after the last value and the spaces
\* behind it
AfterMember(s, nxt, d) ==
    IF nxt >= Len(s) THEN JsonFail
    ELSE IF At(s, nxt) = "}" THEN Scan(d, nxt + 1)
    ELSE IF At(s, nxt) = "," THEN NextMember(s, SkipJsonSpace(s, nxt + 1), d)
    ELSE JsonFail

\* JSONObject after the value val of the key key
AfterMemberValue(s, d, key, val) ==
    IF ~val.ok THEN JsonFail
    ELSE AfterMember(s, SkipJsonSpace(s, val.i), DictSet(d, key.v, val.v))

\* JSONObject after a key, colon the offset after the key and the spaces behind it
AfterKey(s, d, key, colon) ==
    IF colon >= Len(s) \/ At(s, colon) # ":" THEN JsonFail
    ELSE AfterMemberValue(s, d, key, ScanValue(s, SkipJsonSpace(s, colon + 1)))

\* JSONObject after the key key
MemberKey(s, d, key) ==
    IF ~key.ok THEN JsonFail ELSE AfterKey(s, d, key, SkipJsonSpace(s, key.i))

\* JSONObject after a key's opening quote at offset i - 1: the pairs so far are in d
ScanMembers(s, i, d) == MemberKey(s, d, ScanString(s, i))

\* JSONArray after the elements xs, nxt the offset after the last one and the spaces
\* behind it
AfterElement(s, nxt, xs) ==
    IF nxt >= Len(s) THEN JsonFail
    ELSE IF At(s, nxt) = "]" THEN Scan(PList(xs), nxt + 1)
    ELSE IF At(s, nxt) = "," THEN ScanElements(s, SkipJsonSpace(s, nxt + 1), xs)
    ELSE JsonFail

\* JSONArray after the element val
AfterElementValue(s, xs, val) ==
    IF ~val.ok THEN JsonFail
    ELSE AfterElement(s, SkipJsonSpace(s, val.i), Append(xs, val.v))

\* JSONArray before an element at offset i: the elements so far are in xs
ScanElements(s, i, xs) == AfterElementValue(s, xs, ScanValue(s, i))

\* a value that is a string
StringValue(str) == IF str.ok THEN Scan(PStr(str.v), str.i) ELSE JsonFail

\* JSONObject, q the offset after the opening brace and the spaces behind it
ScanObject(s, q) ==
    IF q < Len(s) /\ At(s, q) = "}" THEN Scan(EmptyDict, q + 1)
    ELSE NextMember(s, q, EmptyDict)

\* JSONArray, q the offset after the opening bracket and the spaces behind it
ScanArray(s, q) ==
    IF q < Len(s) /\ At(s, q) = "]" THEN Scan(PList(<<>>), q + 1)
    ELSE ScanElements(s, q, <<>>)

\* scan_once(s, i): [ok, v, i] with i the offset after the value
ScanValue(s, i) ==
    IF i >= Len(s) THEN JsonFail
    ELSE IF At(s, i) = "\"" THEN StringValue(ScanString(s, i + 1))
    ELSE IF At(s, i) = "{" THEN ScanObject(s, SkipJsonSpace(s, i + 1))
    ELSE IF At(s, i) = "[" THEN ScanArray(s, SkipJsonSpace(s, i + 1))
    ELSE IF StartsAt(s, i, <<"n","u","l","l">>) THEN Scan(PNone, i + 4)
    ELSE IF StartsAt(s, i, <<"t","r","u","e">>) THEN Scan(PBool(TRUE), i + 4)
    ELSE IF StartsAt(s, i, <<"f","a","l","s","e">>) THEN Scan(PBool(FALSE), i + 5)
    ELSE ScanNumber(s, i)

\* the value val if nothing but spaces follows it
WholeText(s, val) ==
    IF val.ok /\ SkipJsonSpace(s, val.i) = Len(s) THEN val ELSE JsonFail

\* json.loads(s): [ok, v]; ok is FALSE where the source raises JSONDecodeError
JsonLoads(s) == WholeText(s, ScanValue(s, SkipJsonSpace(s, 0)))

\* the value of a parse, or PNone for the None of a parse failure
ParsedOrNone(r) == IF r.ok THEN r.v ELSE PNone

\* _js_to_dict(js_str)
_js_to_dict(js_str) == ParsedOrNone(JsonLoads(Normalize(js_str)))

\* results[ticker] = parsed, under "if parsed:" (ingest.py 133-134)
KeepParsed(stocks, ticker, parsed) ==
    IF Truthy(parsed) THEN DictSet(stocks, ticker, parsed) ELSE stocks

\* the body of the loop of _extract_js_objects under "if js_obj:" (ingest.py 131-134)
KeepObject(stocks, ticker, js_obj) ==
    IF js_obj # <<>> THEN KeepParsed(stocks, ticker, _js_to_dict(js_obj)) ELSE stocks

RECURSIVE ExtractStocks(_, _, _)
\* the loop of _extract_js_objects over the matches ms of the ticker pattern
ExtractStocks(html, ms, stocks) ==
    IF ms = <<>> THEN stocks
    ELSE ExtractStocks(html, Tail(ms),
             KeepObject(stocks, Head(ms).ticker,
                        _extract_balanced_braces(html, Head(ms).end - 1)))

_extract_js_objects(html) == ExtractStocks(html, FindStocks(html, 0), EmptyDict)

\* "_js_to_dict(js_obj) or {}"
ParsedOrEmpty(parsed) == IF Truthy(parsed) THEN parsed ELSE EmptyDict

\* the body of _extract_reference_data / _extract_freshness_data after the search, end
\* being match.end() or -1
ExtractConstAt(html, end) ==
    IF end < 0 THEN EmptyDict
    ELSE ParsedOrEmpty(_js_to_dict(_extract_balanced_braces(html, end - 1)))

ExtractConst(html, name) == ExtractConstAt(html, SearchConst(html, 0, name))

_extract_reference_data(html) == ExtractConst(html, <<"R","E","F","E","R","E","N","C","E","_","D","A","T","A">>)

_extract_freshness_data(html) == ExtractConst(html, <<"F","R","E","S","H","N","E","S","S","_","D","A","T","A">>)
\* ------------------------------------------------------------------ Python text helpers

RECURSIVE IntDigits(_)
IntDigits(n) == IF n < 10 THEN <<Digits[n + 1]>> ELSE IntDigits(n \div 10) \o <<Digits[(n % 10) + 1]>>

\* str(n) of an int
IntToText(n) == IF n < 0 THEN <<"-">> \o IntDigits(0 - n) ELSE IntDigits(n)

RECURSIVE Join(_, _)
\* sep.join(parts)
Join(sep, parts) ==
    IF parts = <<>> THEN <<>>
    ELSE IF Len(parts) = 1 THEN parts[1]
    ELSE parts[1] \o sep \o Join(sep, Tail(parts))

\* what repr writes for the character c it escapes
ReprEscape(c) ==
    CASE c = "\\" -> <<"\\","\\">>
      [] c = "\n" -> <<"\\","n">>
      [] c = "\t" -> <<"\\","t">>
      [] c = "\r" -> <<"\\","r">>
      [] OTHER -> <<"\\", c>>

RECURSIVE ReprBody(_, _, _)
\* the characters from offset i on, j the offset of the next character repr escapes
ReprBodyAt(s, quote, i, j) ==
    IF j >= Len(s) THEN Slice(s, i, Len(s))
    ELSE Slice(s, i, j) \o ReprEscape(At(s, j)) \o ReprBody(s, quote, j + 1)

\* the characters of repr(s) between its quotes from offset i on, quote being the quote
\* character chosen
ReprBody(s, quote, i) == ReprBodyAt(s, quote, i, NextIn(s, i, {"\\", "\n", "\t", "\r", quote}))

\* repr(s) within the quote character chosen
ReprQuoted(s, quote) == <<quote>> \o ReprBody(s, quote, 0) \o <<quote>>

\* repr(s) of a str
ReprText(s) ==
    ReprQuoted(s, IF "'" \in Range(s) /\ "\"" \notin Range(s) THEN "\"" ELSE "'")

RECURSIVE Repr(_)
RECURSIVE ReprItems(_)
RECURSIVE ReprPairs(_, _)

ReprItems(xs) ==
    IF xs = <<>> THEN <<>> ELSE <<Repr(Head(xs))>> \o ReprItems(Tail(xs))

ReprPairs(ks, vs) ==
    IF ks = <<>> THEN <<>>
    ELSE <<ReprText(Head(ks)) \o <<":"," ">> \o Repr(Head(vs))>> \o ReprPairs(Tail(ks), Tail(vs))

\* repr(v)
Repr(v) ==
    CASE v.k = "None" -> <<"N","o","n","e">>
      [] v.k = "bool" -> IF v.b THEN <<"T","r","u","e">> ELSE <<"F","a","l","s","e">>
      [] v.k = "int" -> IntToText(v.n)
      [] v.k = "float" -> v.text
      [] v.k = "str" -> ReprText(v.s)
      [] v.k = "list" -> <<"[">> \o Join(<<","," ">>, ReprItems(v.xs)) \o <<"]">>
      [] v.k = "dict" -> <<"{">> \o Join(<<","," ">>, ReprPairs(v.ks, v.vs)) \o <<"}">>

\* str(v), as an f-string field formats v
Str(v) == IF v.k = "str" THEN v.s ELSE Repr(v)

\* ------------------------------------------------------------------ HTML entity cleanup

\* _HTML_ENTITIES, in the order the dict is iterated
HtmlEntities == <<
    <<<<"&","a","m","p",";">>, <<"&">>>>,
    <<<<"&","l","t",";">>, <<"<">>>>,
    <<<<"&","g","t",";">>, <<">">>>>,
    <<<<"&","b","u","l","l",";">>, <<" ","-"," ">>>>,
    <<<<"&","n","d","a","s","h",";">>, <<"-">>>>,
    <<<<"&","m","d","a","s","h",";">>, <<" ","U+2014"," ">>>>,
    <<<<"&","r","a","r","r",";">>, <<"-",">">>>>,
    <<<<"&","l","a","r","r",";">>, <<"<","-">>>>,
    <<<<"&","u","a","r","r",";">>, <<"^">>>>,
    <<<<"&","d","a","r","r",";">>, <<"v">>>>,
    <<<<"&","g","e",";">>, <<">","=">>>>,
    <<<<"&","l","e",";">>, <<"<","=">>>>,
    <<<<"&","#","9","6","5","0",";">>, <<"^">>>>,
    <<<<"&","#","9","6","6","0",";">>, <<"v">>>> >>

RECURSIVE ReplaceEntities(_, _)
\* the loop of text.replace(entity, replacement) from the n-th entity on
ReplaceEntities(text, n) ==
    IF n > Len(HtmlEntities) THEN text
    ELSE ReplaceEntities(Replace(text, HtmlEntities[n][1], HtmlEntities[n][2], 0), n + 1)

RECURSIVE StripTags(_, _)
\* the text from offset i on, lt the offset of the next "<" and gt the offset of the
\* first ">" after it (-1: none)
StripTagAt(text, i, lt, gt) ==
    IF lt >= Len(text) THEN Slice(text, i, Len(text))
    ELSE IF gt >= lt + 2 THEN Slice(text, i, lt) \o StripTags(text, gt + 1)
    ELSE Slice(text, i, lt + 1) \o StripTags(text, lt + 1)

StripTagFrom(text, i, lt) == StripTagAt(text, i, lt, FindFrom(text, <<">">>, lt + 1))

\* re.sub(r"<[^>]+>", "", text), from offset i on
StripTags(text, i) == StripTagFrom(text, i, NextIn(text, i, {"<"}))

RECURSIVE CollapseSpace(_, _)
\* the text from offset i on, j the offset of the next whitespace character
CollapseSpaceAt(text, i, j) ==
    IF j >= Len(text) THEN Slice(text, i, Len(text))
    ELSE Slice(text, i, j) \o <<" ">> \o CollapseSpace(text, SkipSpace(text, j))

\* re.sub(r"\s+", " ", text), from offset i on
CollapseSpace(text, i) == CollapseSpaceAt(text, i, NextIn(text, i, Spaces))

\* text.rstrip()
RStrip(text) ==
    IF \A j \in 1..Len(text) : IsSpace(text[j]) THEN <<>>
    ELSE SubSeq(text, 1, CHOOSE j \in 1..Len(text) :
                             ~IsSpace(text[j]) /\ \A k \in (j + 1)..Len(text) : IsSpace(text[k]))

\* text.lstrip()
LStrip(text) == Slice(text, SkipSpace(text, 0), Len(text))

\* text.strip()
Strip(text) == LStrip(RStrip(text))

\* _clean_html(text), text any Python value
_clean_html(text) ==
    IF ~Truthy(text) THEN <<>>
    ELSE Strip(CollapseSpace(StripTags(ReplaceEntities(Str(text), 1), 0), 0))
\* ------------------------------------------------------------------ Passage

\* weights are kept in thousandths: every prior weight is a multiple of 0.1 and the
\* boosts multiply by 1.5, 1.3 and 1.4, so every weight is a whole number of thousandths
Weight(tenths) == tenths * 100

\* Passage.__init__; subsection and the tags are Python values of any type
Passage(ticker, section, subsection, content, tags, weight) ==
    [ticker |-> ticker, section |-> section, subsection |-> subsection,
     content |-> content, tags |-> tags, weight |-> weight]

\* ------------------------------------------------------------------ Passage Chunker

\* d.get(key)
Get(d, key) == DictGet(d, key, PNone)

\* d.get(key, "")
GetText(d, key) == DictGet(d, key, PStr(<<>>))

\* d.get(key, {})
GetDict(d, key) == DictGet(d, key, EmptyDict)

\* d.get(key, [])
GetList(d, key) == DictGet(d, key, PList(<<>>))

\* x or []
OrList(v) == IF Truthy(v) THEN v ELSE PList(<<>>)

\* iter(v) does not raise
Iterable(v) == v.k \in {"list", "str", "dict"}

\* what a for loop over v yields
Items(v) ==
    CASE v.k = "list" -> v.xs
      [] v.k = "str" -> [i \in 1..Len(v.s) |-> PStr(<<v.s[i]>>)]
      [] v.k = "dict" -> [i \in 1..Len(v.ks) |-> PStr(v.ks[i])]

\* a for loop over v whose body calls item.get raises
LoopOfDictsRaises(v) ==
    ~Iterable(v) \/ \E i \in 1..Len(Items(v)) : ~IsDict(Items(v)[i])

\* [_clean_html(x) for x in v]
CleanAll(v) == [i \in 1..Len(Items(v)) |-> _clean_html(Items(v)[i])]

\* --- Company overview (ingest.py 257-277)

OverviewRaises(data) == ~IsDict(GetDict(data, <<"i","d","e","n","t","i","t","y">>))

OverviewParts(ticker, data) ==
    (IF Truthy(Get(data, <<"c","o","m","p","a","n","y">>))
     THEN <<Str(Get(data, <<"c","o","m","p","a","n","y">>)) \o <<" ","(","A","S","X",":"," ">> \o ticker \o <<")">>>> ELSE <<>>)
    \o (IF Truthy(Get(data, <<"s","e","c","t","o","r">>))
        THEN <<<<"S","e","c","t","o","r",":"," ">> \o Str(Get(data, <<"s","e","c","t","o","r">>))>> ELSE <<>>)
    \o (IF Truthy(Get(data, <<"h","e","r","o","D","e","s","c","r","i","p","t","i","o","n">>))
        THEN <<_clean_html(Get(data, <<"h","e","r","o","D","e","s","c","r","i","p","t","i","o","n">>))>> ELSE <<>>)
    \o (IF Truthy(Get(data, <<"h","e","r","o","C","o","m","p","a","n","y","D","e","s","c","r","i","p","t","i","o","n">>))
        THEN <<_clean_html(Get(data, <<"h","e","r","o","C","o","m","p","a","n","y","D","e","s","c","r","i","p","t","i","o","n">>))>> ELSE <<>>)
    \o (IF Truthy(Get(GetDict(data, <<"i","d","e","n","t","i","t","y">>), <<"o","v","e","r","v","i","e","w">>))
        THEN <<_clean_html(Get(GetDict(data, <<"i","d","e","n","t","i","t","y">>), <<"o","v","e","r","v","i","e","w">>))>> ELSE <<>>)

OverviewGroup(ticker, data) ==
    IF OverviewParts(ticker, data) # <<>>
    THEN <<Passage(ticker, <<"o","v","e","r","v","i","e","w">>, PStr(<<"c","o","m","p","a","n","y","_","d","e","s","c","r","i","p","t","i","o","n">>),
                   Join(<<"\n">>, OverviewParts(ticker, data)),
                   <<PStr(<<"o","v","e","r","v","i","e","w">>), PStr(<<"f","u","n","d","a","m","e","n","t","a","l","s">>)>>, Weight(10))>>
    ELSE <<>>

\* --- Hero metrics (ingest.py 279-293)

MetricsRaises(data) ==
    LET metrics == OrList(Get(data, <<"h","e","r","o","M","e","t","r","i","c","s">>)) IN
    Truthy(metrics) /\ LoopOfDictsRaises(metrics)

MetricsGroup(ticker, data) ==
    LET metrics == OrList(Get(data, <<"h","e","r","o","M","e","t","r","i","c","s">>))
        ms == Items(metrics)
        metric_str == Join(<<","," ">>, [i \in 1..Len(ms) |->
                          Str(GetText(ms[i], <<"l","a","b","e","l">>)) \o <<":"," ">>
                              \o _clean_html(GetText(ms[i], <<"v","a","l","u","e">>))])
    IN  IF Truthy(metrics)
        THEN <<Passage(ticker, <<"o","v","e","r","v","i","e","w">>, PStr(<<"k","e","y","_","m","e","t","r","i","c","s">>),
                       <<"K","e","y"," ","m","e","t","r","i","c","s"," ","f","o","r"," ">> \o ticker \o <<":"," ">> \o metric_str,
                       <<PStr(<<"m","e","t","r","i","c","s">>), PStr(<<"f","u","n","d","a","m","e","n","t","a","l","s">>)>>, Weight(8))>>
        ELSE <<>>

\* --- Identity table (ingest.py 295-311)

\* len(cell) raises, or cell[0] / cell[1] raise once len(cell) >= 2
CellRaises(cell) ==
    \/ cell.k \in {"None", "bool", "int", "float"}
    \/ cell.k = "dict" /\ Len(cell.ks) >= 2

IdentityRaises(data) ==
    LET identity == GetDict(data, <<"i","d","e","n","t","i","t","y">>) IN
    \/ ~IsDict(identity)
    \/ LET id_rows == GetList(identity, <<"r","o","w","s">>) IN
       /\ Truthy(id_rows)
       /\ \/ ~Iterable(id_rows)
          \/ \E r \in 1..Len(Items(id_rows)) :
                LET row == Items(id_rows)[r] IN
                \/ ~Iterable(row)
                \/ \E c \in 1..Len(Items(row)) : CellRaises(Items(row)[c])

\* the cells of a row as lines "label: value"
CellLine(cell) ==
    LET xs == Items(cell) IN
    IF Len(xs) >= 2 THEN <<Str(xs[1]) \o <<":"," ">> \o _clean_html(xs[2])>> ELSE <<>>

RECURSIVE CellLines(_)
CellLines(cells) ==
    IF cells = <<>> THEN <<>> ELSE CellLine(Head(cells)) \o CellLines(Tail(cells))

RECURSIVE IdLines(_)
IdLines(rows) ==
    IF rows = <<>> THEN <<>> ELSE CellLines(Items(Head(rows))) \o IdLines(Tail(rows))

IdentityGroup(ticker, data) ==
    LET id_rows == GetList(GetDict(data, <<"i","d","e","n","t","i","t","y">>), <<"r","o","w","s">>) IN
    IF Truthy(id_rows)
    THEN <<Passage(ticker, <<"i","d","e","n","t","i","t","y">>, PStr(<<"f","i","n","a","n","c","i","a","l","_","d","a","t","a">>),
                   <<"F","i","n","a","n","c","i","a","l"," ","i","d","e","n","t","i","t","y"," ","f","o","r"," ">> \o ticker \o <<":","\n">>
                       \o Join(<<"\n">>, IdLines(Items(id_rows))),
                   <<PStr(<<"i","d","e","n","t","i","t","y">>), PStr(<<"f","i","n","a","n","c","i","a","l","s">>), PStr(<<"f","u","n","d","a","m","e","n","t","a","l","s">>)>>,
                   Weight(9))>>
    ELSE <<>>

\* --- Skew (ingest.py 313-323)

SkewRaises(data) ==
    LET skew == GetDict(data, <<"s","k","e","w">>) IN Truthy(skew) /\ ~IsDict(skew)

SkewGroup(ticker, data) ==
    LET skew == GetDict(data, <<"s","k","e","w">>) IN
    IF Truthy(skew)
    THEN <<Passage(ticker, <<"v","e","r","d","i","c","t">>, PStr(<<"s","k","e","w">>),
                   <<"R","i","s","k"," ","s","k","e","w"," ","f","o","r"," ">> \o ticker \o <<":"," ">>
                       \o Str(DictGet(skew, <<"d","i","r","e","c","t","i","o","n">>, PStr(<<"u","n","k","n","o","w","n">>))) \o <<"."," ">>
                       \o _clean_html(GetText(skew, <<"r","a","t","i","o","n","a","l","e">>)),
                   <<PStr(<<"s","k","e","w">>), PStr(<<"r","i","s","k">>), PStr(<<"v","e","r","d","i","c","t">>)>>, Weight(10))>>
    ELSE <<>>

\* --- Verdict (ingest.py 325-340)

VerdictRaises(data) ==
    LET verdict == GetDict(data, <<"v","e","r","d","i","c","t">>) IN
    /\ Truthy(verdict)
    /\ \/ ~IsDict(verdict)
       \/ LoopOfDictsRaises(GetList(verdict, <<"s","c","o","r","e","s">>))

VerdictGroup(ticker, data) ==
    LET verdict == GetDict(data, <<"v","e","r","d","i","c","t">>)
        scores == Items(GetList(verdict, <<"s","c","o","r","e","s">>))
        verdict_parts ==
            <<<<"V","e","r","d","i","c","t"," ","f","o","r"," ">> \o ticker \o <<":"," ">> \o _clean_html(GetText(verdict, <<"t","e","x","t">>))>>
            \o [i \in 1..Len(scores) |->
                   <<" "," ">> \o Str(GetText(scores[i], <<"l","a","b","e","l">>)) \o <<":"," ">>
                       \o Str(GetText(scores[i], <<"s","c","o","r","e">>)) \o <<" ","(">>
                       \o _clean_html(GetText(scores[i], <<"d","i","r","T","e","x","t">>)) \o <<")">>]
    IN  IF Truthy(verdict)
        THEN <<Passage(ticker, <<"v","e","r","d","i","c","t">>, PStr(<<"s","u","m","m","a","r","y">>), Join(<<"\n">>, verdict_parts),
                       <<PStr(<<"v","e","r","d","i","c","t">>), PStr(<<"t","h","e","s","i","s">>), PStr(<<"s","u","m","m","a","r","y">>)>>, Weight(12))>>
        ELSE <<>>

\* --- Hypotheses, one passage per hypothesis (ingest.py 342-369)

\* x = hyp.get(key) or []; if x: ... for r in x
OptionalListRaises(hyp, key) ==
    LET x == OrList(Get(hyp, key)) IN Truthy(x) /\ ~Iterable(x)

HypothesesRaises(data) ==
    LET hyps == GetList(data, <<"h","y","p","o","t","h","e","s","e","s">>) IN
    \/ LoopOfDictsRaises(hyps)
    \/ \E i \in 1..Len(Items(hyps)) :
          \/ OptionalListRaises(Items(hyps)[i], <<"r","e","q","u","i","r","e","s">>)
          \/ OptionalListRaises(Items(hyps)[i], <<"s","u","p","p","o","r","t","i","n","g">>)
          \/ OptionalListRaises(Items(hyps)[i], <<"c","o","n","t","r","a","d","i","c","t","i","n","g">>)

\* the optional line "label" + sep.join(_clean_html(x) for x in hyp[key])
OptionalLine(hyp, key, label, sep) ==
    LET x == OrList(Get(hyp, key)) IN
    IF Truthy(x) THEN <<label \o Join(sep, CleanAll(x))>> ELSE <<>>

HypothesisPassage(ticker, hyp) ==
    LET parts ==
            << <<"H","y","p","o","t","h","e","s","i","s",":"," ">> \o _clean_html(GetText(hyp, <<"t","i","t","l","e">>)),
               <<"D","i","r","e","c","t","i","o","n",":"," ">> \o Str(GetText(hyp, <<"d","i","r","e","c","t","i","o","n">>)),
               <<"P","r","o","b","a","b","i","l","i","t","y",":"," ">> \o Str(GetText(hyp, <<"s","c","o","r","e">>)),
               <<"S","t","a","t","u","s",":"," ">> \o _clean_html(GetText(hyp, <<"s","t","a","t","u","s","T","e","x","t">>)),
               <<"D","e","s","c","r","i","p","t","i","o","n",":"," ">> \o _clean_html(GetText(hyp, <<"d","e","s","c","r","i","p","t","i","o","n">>)) >>
            \o OptionalLine(hyp, <<"r","e","q","u","i","r","e","s">>, <<"R","e","q","u","i","r","e","s",":"," ">>, <<";"," ">>)
            \o OptionalLine(hyp, <<"s","u","p","p","o","r","t","i","n","g">>, <<"S","u","p","p","o","r","t","i","n","g"," ","e","v","i","d","e","n","c","e",":"," ">>, <<" ","|"," ">>)
            \o OptionalLine(hyp, <<"c","o","n","t","r","a","d","i","c","t","i","n","g">>, <<"C","o","n","t","r","a","d","i","c","t","i","n","g"," ","e","v","i","d","e","n","c","e",":"," ">>, <<" ","|"," ">>)
        tier == GetText(hyp, <<"t","i","e","r">>)
    IN  Passage(ticker, <<"h","y","p","o","t","h","e","s","i","s">>, tier, Join(<<"\n">>, parts),
                <<PStr(<<"h","y","p","o","t","h","e","s","i","s">>), tier, GetText(hyp, <<"d","i","r","e","c","t","i","o","n">>)>>, Weight(13))

\* the passages of the hypotheses, the last hypothesis first
HypothesesReversed(ticker, data) ==
    LET hyps == Items(GetList(data, <<"h","y","p","o","t","h","e","s","e","s">>)) IN
    [i \in 1..Len(hyps) |-> HypothesisPassage(ticker, hyps[Len(hyps) + 1 - i])]

HypothesesGroup(ticker, data) ==
    LET hyps == Items(GetList(data, <<"h","y","p","o","t","h","e","s","e","s">>)) IN
    [i \in 1..Len(hyps) |-> HypothesisPassage(ticker, hyps[i])]

\* --- Narrative (ingest.py 371-410)

NarrativeRaises(data) ==
    LET narrative == GetDict(data, <<"n","a","r","r","a","t","i","v","e">>) IN
    /\ Truthy(narrative)
    /\ \/ ~IsDict(narrative)
       \/ LET pi == GetDict(narrative, <<"p","r","i","c","e","I","m","p","l","i","c","a","t","i","o","n">>) IN Truthy(pi) /\ ~IsDict(pi)

NarrativeGroup(ticker, data) ==
    LET narrative == GetDict(data, <<"n","a","r","r","a","t","i","v","e">>)
        pi == GetDict(narrative, <<"p","r","i","c","e","I","m","p","l","i","c","a","t","i","o","n">>)
    IN  IF ~Truthy(narrative) THEN <<>>
        ELSE (IF Truthy(Get(narrative, <<"t","h","e","N","a","r","r","a","t","i","v","e">>))
              THEN <<Passage(ticker, <<"n","a","r","r","a","t","i","v","e">>, PStr(<<"t","h","e","_","n","a","r","r","a","t","i","v","e">>),
                             <<"M","a","r","k","e","t"," ","n","a","r","r","a","t","i","v","e"," ","f","o","r"," ">> \o ticker \o <<":"," ">>
                                 \o _clean_html(Get(narrative, <<"t","h","e","N","a","r","r","a","t","i","v","e">>)),
                             <<PStr(<<"n","a","r","r","a","t","i","v","e">>), PStr(<<"t","h","e","s","i","s">>)>>, Weight(11))>>
              ELSE <<>>)
          \o (IF Truthy(pi) /\ Truthy(Get(pi, <<"c","o","n","t","e","n","t">>))
              THEN <<Passage(ticker, <<"n","a","r","r","a","t","i","v","e">>, PStr(<<"p","r","i","c","e","_","i","m","p","l","i","c","a","t","i","o","n">>),
                             <<"P","r","i","c","e"," ","i","m","p","l","i","c","a","t","i","o","n","s"," ","f","o","r"," ">> \o ticker \o <<" ","(">>
                                 \o _clean_html(GetText(pi, <<"l","a","b","e","l">>)) \o <<")",":"," ">>
                                 \o _clean_html(Get(pi, <<"c","o","n","t","e","n","t">>)),
                             <<PStr(<<"n","a","r","r","a","t","i","v","e">>), PStr(<<"p","r","i","c","e">>), PStr(<<"v","a","l","u","a","t","i","o","n">>)>>,
                             Weight(10))>>
              ELSE <<>>)
          \o (IF Truthy(Get(narrative, <<"e","v","i","d","e","n","c","e","C","h","e","c","k">>))
              THEN <<Passage(ticker, <<"n","a","r","r","a","t","i","v","e">>, PStr(<<"e","v","i","d","e","n","c","e","_","c","h","e","c","k">>),
                             <<"E","v","i","d","e","n","c","e"," ","c","h","e","c","k"," ","f","o","r"," ">> \o ticker \o <<":"," ">>
                                 \o _clean_html(Get(narrative, <<"e","v","i","d","e","n","c","e","C","h","e","c","k">>)),
                             <<PStr(<<"n","a","r","r","a","t","i","v","e">>), PStr(<<"e","v","i","d","e","n","c","e">>)>>, Weight(10))>>
              ELSE <<>>)
          \o (IF Truthy(Get(narrative, <<"n","a","r","r","a","t","i","v","e","S","t","a","b","i","l","i","t","y">>))
              THEN <<Passage(ticker, <<"n","a","r","r","a","t","i","v","e">>, PStr(<<"s","t","a","b","i","l","i","t","y">>),
                             <<"N","a","r","r","a","t","i","v","e"," ","s","t","a","b","i","l","i","t","y"," ","f","o","r"," ">> \o ticker \o <<":"," ">>
                                 \o _clean_html(Get(narrative, <<"n","a","r","r","a","t","i","v","e","S","t","a","b","i","l","i","t","y">>)),
                             <<PStr(<<"n","a","r","r","a","t","i","v","e">>), PStr(<<"s","t","a","b","i","l","i","t","y">>), PStr(<<"r","i","s","k">>)>>,
                             Weight(10))>>
              ELSE <<>>)

\* --- Evidence cards, one passage per card and one per card table (ingest.py 412-449)

\* sep.join(v) raises: v is not iterable or yields something that is not a str
JoinRaises(v) == ~Iterable(v) \/ \E i \in 1..Len(Items(v)) : ~IsStr(Items(v)[i])

TableRaises(card) ==
    LET tbl == Get(card, <<"t","a","b","l","e">>) IN
    /\ Truthy(tbl)
    /\ \/ ~IsDict(tbl)
       \/ JoinRaises(GetList(tbl, <<"h","e","a","d","e","r","s">>))
       \/ ~Iterable(GetList(tbl, <<"r","o","w","s">>))
       \/ \E r \in 1..Len(Items(GetList(tbl, <<"r","o","w","s">>))) :
             ~Iterable(Items(GetList(tbl, <<"r","o","w","s">>))[r])

CardRaises(card) ==
    \/ LoopOfDictsRaises(GetList(card, <<"t","a","g","s">>))
    \/ TableRaises(card)

EvidenceRaises(data) ==
    LET evidence == GetDict(data, <<"e","v","i","d","e","n","c","e">>) IN
    \/ ~IsDict(evidence)
    \/ LoopOfDictsRaises(GetList(evidence, <<"c","a","r","d","s">>))
    \/ \E i \in 1..Len(Items(GetList(evidence, <<"c","a","r","d","s">>))) :
          CardRaises(Items(GetList(evidence, <<"c","a","r","d","s">>))[i])
    \/ LET alignment == GetDict(evidence, <<"a","l","i","g","n","m","e","n","t","S","u","m","m","a","r","y">>) IN
       /\ Truthy(alignment)
       /\ \/ ~IsDict(alignment)
          \/ Truthy(Get(alignment, <<"s","u","m","m","a","r","y">>)) /\ ~IsDict(Get(alignment, <<"s","u","m","m","a","r","y">>))

CardPassage(ticker, card) ==
    LET parts ==
            << <<"E","v","i","d","e","n","c","e",":"," ">> \o _clean_html(GetText(card, <<"t","i","t","l","e">>)),
               <<"E","p","i","s","t","e","m","i","c"," ","s","t","a","t","u","s",":"," ">> \o _clean_html(GetText(card, <<"e","p","i","s","t","e","m","i","c","L","a","b","e","l">>)),
               <<"F","i","n","d","i","n","g",":"," ">> \o _clean_html(GetText(card, <<"f","i","n","d","i","n","g">>)) >>
            \o (IF Truthy(Get(card, <<"t","e","n","s","i","o","n">>))
                THEN <<<<"T","e","n","s","i","o","n",":"," ">> \o _clean_html(Get(card, <<"t","e","n","s","i","o","n">>))>> ELSE <<>>)
            \o (IF Truthy(Get(card, <<"s","o","u","r","c","e">>))
                THEN <<<<"S","o","u","r","c","e",":"," ">> \o _clean_html(Get(card, <<"s","o","u","r","c","e">>))>> ELSE <<>>)
        tags == Items(GetList(card, <<"t","a","g","s">>))
        tag_texts == [i \in 1..Len(tags) |-> PStr(_clean_html(GetText(tags[i], <<"t","e","x","t">>)))]
    IN  Passage(ticker, <<"e","v","i","d","e","n","c","e">>, PStr(<<"c","a","r","d","_">> \o Str(GetText(card, <<"n","u","m","b","e","r">>))),
                Join(<<"\n">>, parts), <<PStr(<<"e","v","i","d","e","n","c","e">>)>> \o tag_texts, Weight(11))

TablePassage(ticker, card) ==
    LET tbl == Get(card, <<"t","a","b","l","e">>)
        headers == Items(GetList(tbl, <<"h","e","a","d","e","r","s">>))
        rows == Items(GetList(tbl, <<"r","o","w","s">>))
        table_lines ==
            <<Join(<<" ","|"," ">>, [i \in 1..Len(headers) |-> headers[i].s])>>
            \o [r \in 1..Len(rows) |-> Join(<<" ","|"," ">>, CleanAll(rows[r]))]
    IN  Passage(ticker, <<"e","v","i","d","e","n","c","e">>,
                PStr(<<"c","a","r","d","_">> \o Str(GetText(card, <<"n","u","m","b","e","r">>)) \o <<"_","t","a","b","l","e">>),
                <<"D","a","t","a"," ","t","a","b","l","e"," ","f","o","r"," ">> \o _clean_html(GetText(card, <<"t","i","t","l","e">>)) \o <<":","\n">>
                    \o Join(<<"\n">>, table_lines),
                <<PStr(<<"e","v","i","d","e","n","c","e">>), PStr(<<"d","a","t","a">>)>>, Weight(8))

RECURSIVE CardPassages(_, _)
CardPassages(ticker, cards) ==
    IF cards = <<>> THEN <<>>
    ELSE <<CardPassage(ticker, Head(cards))>>
         \o (IF Truthy(Get(Head(cards), <<"t","a","b","l","e">>))
             THEN <<TablePassage(ticker, Head(cards))>> ELSE <<>>)
         \o CardPassages(ticker, Tail(cards))

EvidenceCardsGroup(ticker, data) ==
    CardPassages(ticker, Items(GetList(GetDict(data, <<"e","v","i","d","e","n","c","e">>), <<"c","a","r","d","s">>)))

\* --- Evidence alignment summary (ingest.py 451-468)

AlignmentSummaryGroup(ticker, data) ==
    LET alignment == GetDict(GetDict(data, <<"e","v","i","d","e","n","c","e">>), <<"a","l","i","g","n","m","e","n","t","S","u","m","m","a","r","y">>)
        s == Get(alignment, <<"s","u","m","m","a","r","y">>)
    IN  IF Truthy(alignment) /\ Truthy(s)
        THEN <<Passage(ticker, <<"e","v","i","d","e","n","c","e">>, PStr(<<"a","l","i","g","n","m","e","n","t","_","s","u","m","m","a","r","y">>),
                       <<"E","v","i","d","e","n","c","e"," ","a","l","i","g","n","m","e","n","t"," ","s","u","m","m","a","r","y"," ","f","o","r"," ">> \o ticker \o <<":"," ">>
                           \o <<"T","1"," ","s","u","p","p","o","r","t",":"," ">> \o Str(DictGet(s, <<"t","1">>, PStr(<<"-">>))) \o <<","," ">>
                           \o <<"T","2"," ","s","u","p","p","o","r","t",":"," ">> \o Str(DictGet(s, <<"t","2">>, PStr(<<"-">>))) \o <<","," ">>
                           \o <<"T","3"," ","s","u","p","p","o","r","t",":"," ">> \o Str(DictGet(s, <<"t","3">>, PStr(<<"-">>))) \o <<","," ">>
                           \o <<"T","4"," ","s","u","p","p","o","r","t",":"," ">> \o Str(DictGet(s, <<"t","4">>, PStr(<<"-">>))),
                       <<PStr(<<"e","v","i","d","e","n","c","e">>), PStr(<<"s","u","m","m","a","r","y">>), PStr(<<"a","l","i","g","n","m","e","n","t">>)>>,
                       Weight(10))>>
        ELSE <<>>

\* --- Discriminators (ingest.py 470-495)

DiscriminatorsRaises(data) ==
    LET disc == GetDict(data, <<"d","i","s","c","r","i","m","i","n","a","t","o","r","s">>) IN
    /\ Truthy(disc)
    /\ \/ ~IsDict(disc)
       \/ LoopOfDictsRaises(GetList(disc, <<"r","o","w","s">>))
       \/ \E i \in 1..Len(Items(GetList(disc, <<"r","o","w","s">>))) :
             ~IsStr(GetText(Items(GetList(disc, <<"r","o","w","s">>))[i], <<"d","i","a","g","n","o","s","t","i","c","i","t","y">>))

DiscriminatorPassage(ticker, i, row) ==
    Passage(ticker, <<"d","i","s","c","r","i","m","i","n","a","t","o","r">>, PStr(<<"d","i","s","c","_">> \o IntToText(i)),
            <<"D","i","s","c","r","i","m","i","n","a","t","o","r"," ","(">> \o Str(GetText(row, <<"d","i","a","g","n","o","s","t","i","c","i","t","y">>)) \o <<")"," ","f","o","r"," ">> \o ticker
                \o <<":"," ">> \o _clean_html(GetText(row, <<"e","v","i","d","e","n","c","e">>))
                \o <<" ","U+2014"," ","D","i","s","c","r","i","m","i","n","a","t","e","s"," ","b","e","t","w","e","e","n",":"," ">>
                \o _clean_html(GetText(row, <<"d","i","s","c","r","i","m","i","n","a","t","e","s","B","e","t","w","e","e","n">>))
                \o <<" ","U+2014"," ","C","u","r","r","e","n","t"," ","r","e","a","d","i","n","g",":"," ">> \o _clean_html(GetText(row, <<"c","u","r","r","e","n","t","R","e","a","d","i","n","g">>)),
            <<PStr(<<"d","i","s","c","r","i","m","i","n","a","t","o","r">>), PStr(Lower(GetText(row, <<"d","i","a","g","n","o","s","t","i","c","i","t","y">>).s))>>,
            Weight(12))

DiscriminatorsGroup(ticker, data) ==
    LET disc == GetDict(data, <<"d","i","s","c","r","i","m","i","n","a","t","o","r","s">>)
        rows == Items(GetList(disc, <<"r","o","w","s">>))
    IN  IF ~Truthy(disc) THEN <<>>
        ELSE [i \in 1..Len(rows) |-> DiscriminatorPassage(ticker, i, rows[i])]
          \o (IF Truthy(Get(disc, <<"n","o","n","D","i","s","c","r","i","m","i","n","a","t","i","n","g">>))
              THEN <<Passage(ticker, <<"d","i","s","c","r","i","m","i","n","a","t","o","r">>, PStr(<<"n","o","n","_","d","i","s","c","r","i","m","i","n","a","t","i","n","g">>),
                             <<"N","o","n","-","d","i","s","c","r","i","m","i","n","a","t","i","n","g"," ","e","v","i","d","e","n","c","e"," ","f","o","r"," ">> \o ticker \o <<":"," ">>
                                 \o _clean_html(Get(disc, <<"n","o","n","D","i","s","c","r","i","m","i","n","a","t","i","n","g">>)),
                             <<PStr(<<"d","i","s","c","r","i","m","i","n","a","t","o","r">>), PStr(<<"n","o","i","s","e">>)>>, Weight(6))>>
              ELSE <<>>)

\* --- Tripwires (ingest.py 497-514)

TripwiresRaises(data) ==
    LET tripwires == GetDict(data, <<"t","r","i","p","w","i","r","e","s">>) IN
    \/ ~IsDict(tripwires)
    \/ LoopOfDictsRaises(GetList(tripwires, <<"c","a","r","d","s">>))
    \/ \E i \in 1..Len(Items(GetList(tripwires, <<"c","a","r","d","s">>))) :
          LoopOfDictsRaises(GetList(Items(GetList(tripwires, <<"c","a","r","d","s">>))[i], <<"c","o","n","d","i","t","i","o","n","s">>))

TripwirePassage(ticker, tw) ==
    LET conds == Items(GetList(tw, <<"c","o","n","d","i","t","i","o","n","s">>))
        cond_parts == [i \in 1..Len(conds) |->
                          _clean_html(GetText(conds[i], <<"i","f">>)) \o <<" ","U+2192"," ">>
                              \o _clean_html(GetText(conds[i], <<"t","h","e","n">>))]
    IN  Passage(ticker, <<"t","r","i","p","w","i","r","e">>, PStr(_clean_html(GetText(tw, <<"n","a","m","e">>))),
                <<"T","r","i","p","w","i","r","e"," ","f","o","r"," ">> \o ticker \o <<":"," ">> \o _clean_html(GetText(tw, <<"n","a","m","e">>))
                    \o <<" ","(","D","a","t","e",":"," ">> \o _clean_html(GetText(tw, <<"d","a","t","e">>)) \o <<")","\n">>
                    \o Join(<<"\n">>, cond_parts),
                <<PStr(<<"t","r","i","p","w","i","r","e">>), PStr(<<"c","a","t","a","l","y","s","t">>), PStr(<<"r","i","s","k">>)>>, Weight(12))

TripwiresGroup(ticker, data) ==
    LET cards == Items(GetList(GetDict(data, <<"t","r","i","p","w","i","r","e","s">>), <<"c","a","r","d","s">>)) IN
    [i \in 1..Len(cards) |-> TripwirePassage(ticker, cards[i])]

\* --- Gaps (ingest.py 516-529)

GapsRaises(data) ==
    LET gaps == GetDict(data, <<"g","a","p","s">>) IN
    \/ ~IsDict(gaps)
    \/ Truthy(GetList(gaps, <<"c","o","u","l","d","n","t","A","s","s","e","s","s">>)) /\ ~Iterable(GetList(gaps, <<"c","o","u","l","d","n","t","A","s","s","e","s","s">>))

GapsGroup(ticker, data) ==
    LET couldnt == GetList(GetDict(data, <<"g","a","p","s">>), <<"c","o","u","l","d","n","t","A","s","s","e","s","s">>) IN
    IF Truthy(couldnt)
    THEN <<Passage(ticker, <<"g","a","p","s">>, PStr(<<"u","n","k","n","o","w","n","s">>),
                   <<"R","e","s","e","a","r","c","h"," ","g","a","p","s"," ","f","o","r"," ">> \o ticker \o <<" ","(","w","h","a","t"," ","w","e"," ","c","o","u","l","d","n","'","t"," ","a","s","s","e","s","s",")",":","\n">>
                       \o Join(<<"\n">>, [i \in 1..Len(Items(couldnt)) |->
                              <<"-"," ">> \o _clean_html(Items(couldnt)[i])]),
                   <<PStr(<<"g","a","p","s">>), PStr(<<"l","i","m","i","t","a","t","i","o","n","s">>)>>, Weight(9))>>
    ELSE <<>>

\* --- Technical analysis (ingest.py 531-560)

\* x = d.get(key, {}); if x: x.get(...)
SubDictRaises(d, key) == Truthy(GetDict(d, key)) /\ ~IsDict(GetDict(d, key))

TechnicalRaises(data) ==
    LET ta == GetDict(data, <<"t","e","c","h","n","i","c","a","l","A","n","a","l","y","s","i","s">>) IN
    /\ Truthy(ta)
    /\ \/ ~IsDict(ta)
       \/ SubDictRaises(ta, <<"p","r","i","c","e">>)
       \/ SubDictRaises(ta, <<"v","o","l","a","t","i","l","i","t","y">>)
       \/ LET ma == GetDict(ta, <<"m","o","v","i","n","g","A","v","e","r","a","g","e","s">>) IN
          /\ Truthy(ma)
          /\ \/ ~IsDict(ma)
             \/ SubDictRaises(ma, <<"m","a","5","0">>)
             \/ SubDictRaises(ma, <<"m","a","2","0","0">>)
             \/ SubDictRaises(ma, <<"c","r","o","s","s","o","v","e","r">>)

TechnicalGroup(ticker, data) ==
    LET ta == GetDict(data, <<"t","e","c","h","n","i","c","a","l","A","n","a","l","y","s","i","s">>)
        price == GetDict(ta, <<"p","r","i","c","e">>)
        ma == GetDict(ta, <<"m","o","v","i","n","g","A","v","e","r","a","g","e","s">>)
        ma50 == GetDict(ma, <<"m","a","5","0">>)
        ma200 == GetDict(ma, <<"m","a","2","0","0">>)
        crossover == GetDict(ma, <<"c","r","o","s","s","o","v","e","r">>)
        vol == GetDict(ta, <<"v","o","l","a","t","i","l","i","t","y">>)
        ta_parts ==
            << <<"T","e","c","h","n","i","c","a","l"," ","a","n","a","l","y","s","i","s"," ","f","o","r"," ">> \o ticker \o <<" ","(">> \o Str(GetText(ta, <<"d","a","t","e">>)) \o <<")",":">>,
               <<"R","e","g","i","m","e",":"," ">> \o Str(GetText(ta, <<"r","e","g","i","m","e">>)) \o <<","," ","C","l","a","r","i","t","y",":"," ">>
                   \o Str(GetText(ta, <<"c","l","a","r","i","t","y">>)) >>
            \o (IF Truthy(price)
                THEN <<<<"P","r","i","c","e",":"," ">> \o Str(GetText(price, <<"c","u","r","r","e","n","c","y">>))
                           \o Str(GetText(price, <<"c","u","r","r","e","n","t">>))>>
                ELSE <<>>)
            \o (IF Truthy(ma)
                THEN (IF Truthy(ma50)
                      THEN <<<<"5","0","-","d","a","y"," ","M","A",":"," ">> \o Str(GetText(ma50, <<"v","a","l","u","e">>))>> ELSE <<>>)
                  \o (IF Truthy(ma200)
                      THEN <<<<"2","0","0","-","d","a","y"," ","M","A",":"," ">> \o Str(GetText(ma200, <<"v","a","l","u","e">>))>> ELSE <<>>)
                  \o (IF Truthy(crossover)
                      THEN <<<<"C","r","o","s","s","o","v","e","r",":"," ">> \o Str(GetText(crossover, <<"t","y","p","e">>)) \o <<" ","(">>
                                 \o Str(GetText(crossover, <<"d","a","t","e">>)) \o <<")">>>>
                      ELSE <<>>)
                ELSE <<>>)
            \o (IF Truthy(vol)
                THEN <<<<"A","n","n","u","a","l","i","s","e","d"," ","v","o","l","a","t","i","l","i","t","y",":"," ">> \o Str(GetText(vol, <<"a","n","n","u","a","l","i","s","e","d">>)) \o <<"%">>>>
                ELSE <<>>)
    IN  IF Truthy(ta)
        THEN <<Passage(ticker, <<"t","e","c","h","n","i","c","a","l">>, PStr(<<"a","n","a","l","y","s","i","s">>), Join(<<"\n">>, ta_parts),
                       <<PStr(<<"t","e","c","h","n","i","c","a","l">>), PStr(<<"p","r","i","c","e">>), PStr(<<"c","h","a","r","t">>)>>, Weight(8))>>
        ELSE <<>>

\* --- Reference data (ingest.py 562-596)

\* field_labels, in the order the dict is iterated
FieldLabels == <<
    <<<<"s","h","a","r","e","s","O","u","t","s","t","a","n","d","i","n","g">>, <<"S","h","a","r","e","s"," ","o","u","t","s","t","a","n","d","i","n","g"," ","(","M",")">>>>,
    <<<<"a","n","a","l","y","s","t","T","a","r","g","e","t">>, <<"A","n","a","l","y","s","t"," ","t","a","r","g","e","t"," ","p","r","i","c","e">>>>,
    <<<<"e","p","s","T","r","a","i","l","i","n","g">>, <<"T","r","a","i","l","i","n","g"," ","E","P","S">>>>,
    <<<<"e","p","s","F","o","r","w","a","r","d">>, <<"F","o","r","w","a","r","d"," ","E","P","S">>>>,
    <<<<"d","i","v","P","e","r","S","h","a","r","e">>, <<"D","i","v","i","d","e","n","d"," ","p","e","r"," ","s","h","a","r","e">>>>,
    <<<<"r","e","v","e","n","u","e">>, <<"R","e","v","e","n","u","e"," ","(","$","B",")">>>>,
    <<<<"r","e","v","e","n","u","e","G","r","o","w","t","h">>, <<"R","e","v","e","n","u","e"," ","g","r","o","w","t","h"," ","(","%",")">>>>,
    <<<<"e","b","i","t","M","a","r","g","i","n">>, <<"E","B","I","T"," ","m","a","r","g","i","n"," ","(","%",")">>>>,
    <<<<"e","b","i","t","d","a","M","a","r","g","i","n">>, <<"E","B","I","T","D","A"," ","m","a","r","g","i","n"," ","(","%",")">>>>,
    <<<<"r","o","e">>, <<"R","e","t","u","r","n"," ","o","n"," ","e","q","u","i","t","y"," ","(","%",")">>>>,
    <<<<"n","e","t","D","e","b","t","T","o","E","b","i","t","d","a">>, <<"N","e","t"," ","d","e","b","t","/","E","B","I","T","D","A">>>>,
    <<<<"f","c","f">>, <<"F","r","e","e"," ","c","a","s","h"," ","f","l","o","w"," ","(","$","B",")">>>>,
    <<<<"f","c","f","M","a","r","g","i","n">>, <<"F","C","F"," ","m","a","r","g","i","n"," ","(","%",")">>>> >>

ReferenceRaises(ref) == Truthy(ref) /\ ~IsDict(ref)

RECURSIVE FieldLines(_, _)
FieldLines(ref, n) ==
    IF n > Len(FieldLabels) THEN <<>>
    ELSE (IF Get(ref, FieldLabels[n][1]) # PNone
          THEN <<<<" "," ">> \o FieldLabels[n][2] \o <<":"," ">> \o Str(Get(ref, FieldLabels[n][1]))>>
          ELSE <<>>)
         \o FieldLines(ref, n + 1)

ReferenceGroup(ticker, ref) ==
    LET ref_parts ==
            <<<<"R","e","f","e","r","e","n","c","e"," ","d","a","t","a"," ","f","o","r"," ">> \o ticker \o <<":">>>>
            \o FieldLines(ref, 1)
            \o (IF Get(ref, <<"a","n","a","l","y","s","t","B","u","y","s">>) # PNone
                THEN <<<<" "," ","A","n","a","l","y","s","t"," ","c","o","n","s","e","n","s","u","s",":"," ">> \o Str(DictGet(ref, <<"a","n","a","l","y","s","t","B","u","y","s">>, PInt(0)))
                           \o <<" ","B","u","y",","," ">> \o Str(DictGet(ref, <<"a","n","a","l","y","s","t","H","o","l","d","s">>, PInt(0)))
                           \o <<" ","H","o","l","d",","," ">> \o Str(DictGet(ref, <<"a","n","a","l","y","s","t","S","e","l","l","s">>, PInt(0)))
                           \o <<" ","S","e","l","l">>>>
                ELSE <<>>)
    IN  IF Truthy(ref)
        THEN <<Passage(ticker, <<"r","e","f","e","r","e","n","c","e">>, PStr(<<"f","u","n","d","a","m","e","n","t","a","l","s">>), Join(<<"\n">>, ref_parts),
                       <<PStr(<<"r","e","f","e","r","e","n","c","e">>), PStr(<<"f","u","n","d","a","m","e","n","t","a","l","s">>), PStr(<<"f","i","n","a","n","c","i","a","l","s">>)>>,
                       Weight(7))>>
        ELSE <<>>

\* --- Freshness data (ingest.py 598-616)

FreshnessRaises(fresh) == Truthy(fresh) /\ ~IsDict(fresh)

FreshnessGroup(ticker, fresh) ==
    IF Truthy(fresh)
    THEN <<Passage(ticker, <<"f","r","e","s","h","n","e","s","s">>, PStr(<<"s","t","a","t","u","s">>),
                   <<"R","e","s","e","a","r","c","h"," ","f","r","e","s","h","n","e","s","s"," ","f","o","r"," ">> \o ticker \o <<":"," ">>
                       \o <<"L","a","s","t"," ","r","e","v","i","e","w","e","d"," ">> \o Str(DictGet(fresh, <<"r","e","v","i","e","w","D","a","t","e">>, PStr(<<"u","n","k","n","o","w","n">>)))
                       \o <<" ","(">> \o Str(DictGet(fresh, <<"d","a","y","s","S","i","n","c","e","R","e","v","i","e","w">>, PStr(<<"?">>)))
                       \o <<" ","d","a","y","s"," ","a","g","o",")","."," ">>
                       \o <<"P","r","i","c","e"," ","a","t"," ","r","e","v","i","e","w",":"," ">> \o Str(DictGet(fresh, <<"p","r","i","c","e","A","t","R","e","v","i","e","w">>, PStr(<<"?">>)))
                       \o <<","," ","c","h","a","n","g","e"," ","s","i","n","c","e",":"," ">> \o Str(DictGet(fresh, <<"p","r","i","c","e","P","c","t","C","h","a","n","g","e">>, PStr(<<"?">>)))
                       \o <<"%","."," ">>
                       \o <<"N","e","a","r","e","s","t"," ","c","a","t","a","l","y","s","t",":"," ">>
                       \o Str(DictGet(fresh, <<"n","e","a","r","e","s","t","C","a","t","a","l","y","s","t">>, PStr(<<"n","o","n","e">>)))
                       \o <<" ","(">> \o Str(DictGet(fresh, <<"n","e","a","r","e","s","t","C","a","t","a","l","y","s","t","D","a","y","s">>, PStr(<<"?">>)))
                       \o <<" ","d","a","y","s",")","."," ">>
                       \o <<"S","t","a","t","u","s",":"," ">> \o Str(DictGet(fresh, <<"s","t","a","t","u","s">>, PStr(<<"u","n","k","n","o","w","n">>))) \o <<".">>,
                   <<PStr(<<"f","r","e","s","h","n","e","s","s">>), PStr(<<"s","t","a","t","u","s">>)>>, Weight(5))>>
    ELSE <<>>

\* --- _chunk_stock (ingest.py 253-618)

\* some statement of _chunk_stock raises (AttributeError, TypeError or KeyError on a
\* field whose value has not the type the statement needs)
ChunkRaises(data, ref, fresh) ==
    \/ OverviewRaises(data)
    \/ MetricsRaises(data)
    \/ IdentityRaises(data)
    \/ SkewRaises(data)
    \/ VerdictRaises(data)
    \/ HypothesesRaises(data)
    \/ NarrativeRaises(data)
    \/ EvidenceRaises(data)
    \/ DiscriminatorsRaises(data)
    \/ TripwiresRaises(data)
    \/ GapsRaises(data)
    \/ TechnicalRaises(data)
    \/ ReferenceRaises(ref)
    \/ FreshnessRaises(fresh)

\* the passages _chunk_stock returns when it does not raise; ref and fresh are PNone
\* where the source passes None
_chunk_stock(ticker, data, ref, fresh) ==
    OverviewGroup(ticker, data)
    \o MetricsGroup(ticker, data)
    \o IdentityGroup(ticker, data)
    \o SkewGroup(ticker, data)
    \o VerdictGroup(ticker, data)
    \o HypothesesGroup(ticker, data)
    \o NarrativeGroup(ticker, data)
    \o EvidenceCardsGroup(ticker, data)
    \o AlignmentSummaryGroup(ticker, data)
    \o DiscriminatorsGroup(ticker, data)
    \o TripwiresGroup(ticker, data)
    \o GapsGroup(ticker, data)
    \o TechnicalGroup(ticker, data)
    \o ReferenceGroup(ticker, ref)
    \o FreshnessGroup(ticker, fresh)

\* ------------------------------------------------------------------ Passage Store

\* The module globals and the objects they reach, as one value:
\*   heap   the Passage objects, object id i being heap[i]
\*   store  _store, a dict ticker -> PList of object ids
\*   all    _all_passages, a list of object ids
Globals(h, s, a) == [heap |-> h, store |-> s, all |-> a]

EmptyGlobals == Globals(<<>>, EmptyDict, <<>>)

\* the object ids of n objects allocated on heap h
NewIds(h, n) == [i \in 1..n |-> Len(h) + i]

\* _store = {} (ingest.py 644)
ResetStore(g) == [g EXCEPT !.store = EmptyDict]

\* the flattened list kept across a re-ingestion
KeepAllPassages(g) == g

\* _all_passages = [] (ingest.py 645); the objects of the previous corpus, which
\* nothing references once both globals are reset, are dropped from the heap
ResetAllPassages(g) == [g EXCEPT !.all = <<>>, !.heap = <<>>]

\* _store[ticker] = passages (ingest.py 651): the Passage objects _chunk_stock built
\* are allocated on the heap and their list is bound to the ticker
StoreTicker(g, ticker, passages) ==
    [g EXCEPT !.heap = g.heap \o passages,
              !.store = DictSet(g.store, ticker, PList(NewIds(g.heap, Len(passages))))]

\* the passages of the ticker put before the flattened list instead of after it
ExtendFront(g, ticker) == [g EXCEPT !.all = DictGet(g.store, ticker, PList(<<>>)).xs \o g.all]

\* _all_passages.extend(passages) (ingest.py 652), passages the list bound to ticker
ExtendAll(g, ticker) == [g EXCEPT !.all = g.all \o DictGet(g.store, ticker, PList(<<>>)).xs]

\* the two statements that end the body of the loop (ingest.py 651-652)
StorePassages(g, ticker, passages) == ExtendAll(StoreTicker(g, ticker, passages), ticker)

\* what a call of ingest, or a part of one, leaves: the globals, and whether it raised
Ingested(g, raised) == [g |-> g, raised |-> raised]

\* one iteration of the loop of ingest over stocks.items() (ingest.py 647-652), for the
\* ticker and its data, ref and fresh the reference and freshness records looked up
IngestItem(g, ticker, data, ref, fresh) ==
    IF ChunkRaises(data, ref, fresh) THEN Ingested(g, TRUE)
    ELSE Ingested(StorePassages(g, ticker, _chunk_stock(ticker, data, ref, fresh)), FALSE)

\* the iteration for the i-th item of stocks
IngestTicker(g, stocks, i, ref_data, fresh_data) ==
    IngestItem(g, stocks.ks[i], stocks.vs[i], Get(ref_data, stocks.ks[i]),
               Get(fresh_data, stocks.ks[i]))

RECURSIVE IngestLoop(_, _, _, _, _)
\* the loop after the iteration for the i-th item, which left step
IngestNext(step, stocks, i, ref_data, fresh_data) ==
    IF step.raised THEN step ELSE IngestLoop(step.g, stocks, i + 1, ref_data, fresh_data)

\* the loop of ingest from the i-th item of stocks on
IngestLoop(g, stocks, i, ref_data, fresh_data) ==
    IF i > Len(stocks.ks) THEN Ingested(g, FALSE)
    ELSE IngestNext(IngestTicker(g, stocks, i, ref_data, fresh_data), stocks, i,
                    ref_data, fresh_data)

\* A source document: readable with its text, or one open()/read() fails on
File(text) == [readable |-> TRUE, text |-> text]

Unreadable == [readable |-> FALSE, text |-> <<>>]

\* ingest after html = f.read() (ingest.py 640-654)
IngestHtml(g, html) ==
    IngestLoop(ResetAllPassages(ResetStore(g)), _extract_js_objects(html), 1,
               _extract_reference_data(html), _extract_freshness_data(html))

\* ingest with the globals reset before the document is opened
IngestResetsFirst(g, file) ==
    IF ~file.readable THEN Ingested(ResetAllPassages(ResetStore(g)), TRUE)
    ELSE IngestHtml(g, file.text)

\* ingest(html_path), run to completion from the globals g: [g, raised]
ingest(g, file) ==
    IF ~file.readable THEN Ingested(g, TRUE) ELSE IngestHtml(g, file.text)

\* the list object a list of ids stands for, as the Passage values it holds
Deref(h, ids) == [i \in 1..Len(ids) |-> h[ids[i]]]

\* a lookup that falls back to the whole corpus for a ticker the store does not hold
AllWhenUnknown(g, ticker) ==
    IF Truthy(ticker) THEN DictGet(g.store, Upper(ticker.s), PList(g.all)).xs ELSE g.all

\* get_passages(ticker): a list of object ids; ticker is PNone or a PStr
get_passages(g, ticker) ==
    IF Truthy(ticker)
    THEN DictGet(g.store, Upper(ticker.s), PList(<<>>)).xs
    ELSE g.all

\* the order of str comparison on the characters of a ticker
RECURSIVE TextLess(_, _)
TextLess(a, b) ==
    IF b = <<>> THEN FALSE
    ELSE IF a = <<>> THEN TRUE
    ELSE IF Head(a) = Head(b) THEN TextLess(Tail(a), Tail(b))
    ELSE IndexIn(UpperCase, Head(a)) < IndexIn(UpperCase, Head(b))

RECURSIVE InsertSorted(_, _)
InsertSorted(sorted, t) ==
    IF sorted = <<>> THEN <<t>>
    ELSE IF TextLess(t, Head(sorted)) THEN <<t>> \o sorted
    ELSE <<Head(sorted)>> \o InsertSorted(Tail(sorted), t)

RECURSIVE Sorted(_)
Sorted(ts) == IF ts = <<>> THEN <<>> ELSE InsertSorted(Sorted(Tail(ts)), Head(ts))

\* get_tickers()
get_tickers(g) == Sorted(g.store.ks)

\* get_passage_count(): a dict ticker -> int in the order of the sorted tickers
get_passage_count(g) ==
    LET ts == Sorted(g.store.ks) IN
    PDict(ts, [i \in 1..Len(ts) |-> PInt(Len(DictGet(g.store, ts[i], PList(<<>>)).xs))])

\* ------------------------------------------------------------------ Tokeniser

_STOP_WORDS == {
    <<"a">>, <<"a","n">>, <<"t","h","e">>, <<"i","s">>, <<"a","r","e">>, <<"w","a","s">>, <<"w","e","r","e">>, <<"b","e">>, <<"b","e","e","n">>, <<"b","e","i","n","g">>, <<"h","a","v","e">>, <<"h","a","s">>,
    <<"h","a","d">>, <<"d","o">>, <<"d","o","e","s">>, <<"d","i","d">>, <<"w","i","l","l">>, <<"w","o","u","l","d">>, <<"c","o","u","l","d">>, <<"s","h","o","u","l","d">>, <<"m","a","y">>, <<"m","i","g","h","t">>,
    <<"s","h","a","l","l">>, <<"c","a","n">>, <<"n","e","e","d">>, <<"d","a","r","e">>, <<"o","u","g","h","t">>, <<"t","o">>, <<"o","f">>, <<"i","n">>, <<"f","o","r">>, <<"o","n">>, <<"w","i","t","h">>,
    <<"a","t">>, <<"b","y">>, <<"f","r","o","m">>, <<"a","s">>, <<"i","n","t","o">>, <<"t","h","r","o","u","g","h">>, <<"d","u","r","i","n","g">>, <<"b","e","f","o","r","e">>, <<"a","f","t","e","r">>, <<"a","b","o","v","e">>,
    <<"b","e","l","o","w">>, <<"b","e","t","w","e","e","n">>, <<"o","u","t">>, <<"o","f","f">>, <<"o","v","e","r">>, <<"u","n","d","e","r">>, <<"a","g","a","i","n">>, <<"f","u","r","t","h","e","r">>, <<"t","h","e","n">>,
    <<"o","n","c","e">>, <<"a","n","d">>, <<"b","u","t">>, <<"o","r">>, <<"n","o","r">>, <<"n","o","t">>, <<"s","o">>, <<"y","e","t">>, <<"b","o","t","h">>, <<"e","a","c","h">>, <<"a","l","l">>,
    <<"a","n","y">>, <<"f","e","w">>, <<"m","o","r","e">>, <<"m","o","s","t">>, <<"o","t","h","e","r">>, <<"s","o","m","e">>, <<"s","u","c","h">>, <<"n","o">>, <<"o","n","l","y">>, <<"s","a","m","e">>,
    <<"t","h","a","n">>, <<"t","o","o">>, <<"v","e","r","y">>, <<"j","u","s","t">>, <<"b","e","c","a","u","s","e">>, <<"i","f">>, <<"w","h","e","n">>, <<"w","h","i","l","e">>, <<"t","h","i","s">>, <<"t","h","a","t">>,
    <<"t","h","e","s","e">>, <<"t","h","o","s","e">>, <<"i","t">>, <<"i","t","s">>, <<"w","h","a","t">>, <<"w","h","i","c","h">>, <<"w","h","o">>, <<"w","h","o","m">>, <<"h","o","w">>, <<"w","h","e","r","e">>,
    <<"w","h","y">>, <<"i">>, <<"m","e">>, <<"m","y">>, <<"w","e">>, <<"o","u","r">>, <<"y","o","u">>, <<"y","o","u","r">>, <<"h","e">>, <<"h","i","m">>, <<"h","i","s">>, <<"s","h","e">>,
    <<"h","e","r">>, <<"t","h","e","y">>, <<"t","h","e","m">>, <<"t","h","e","i","r">> }
\* the characters of [a-z0-9]
AlnumChars == Range(LowerCase) \cup Range(Digits)

IsAlnum(c) == c \in AlnumChars

SkipAlnum(text, i) == NextNotIn(text, i, AlnumChars)

RECURSIVE SkipDotted(_, _)
\* the end of a greedy (?:\.[a-z0-9]+)* begun at offset i
SkipDotted(text, i) ==
    IF i + 1 < Len(text) /\ At(text, i) = "." /\ IsAlnum(At(text, i + 1))
    THEN SkipDotted(text, SkipAlnum(text, i + 1))
    ELSE i

RECURSIVE FindTokens(_, _)
\* re.findall(r"[a-z0-9]+(?:\.[a-z0-9]+)*", text), from offset i on
FindTokens(text, i) ==
    LET b == NextIn(text, i, AlnumChars)
        e == SkipDotted(text, SkipAlnum(text, b))
    IN  IF b >= Len(text) THEN <<>>
        ELSE <<Slice(text, b, e)>> \o FindTokens(text, e)

\* the condition of the comprehension of _tokenize
KeepToken(t) == t \notin _STOP_WORDS /\ Len(t) > 1

\* [t for t in tokens if t not in _STOP_WORDS and len(t) > 1]
_tokenize(text) == SelectSeq(FindTokens(Lower(text), 0), KeepToken)
\* ------------------------------------------------------------------ Lexical Index (BM25)

\* Floats are kept in fixed point: an idf in units of 1/IdfScale, a term-frequency ratio
\* in units of 1/RatioScale, a weight in thousandths, a BM25 score in units of
\* 1/(IdfScale * 1000).
IdfScale == 10 * 1000

RatioScale == 10 * 100

\* k1 = 1.5 and b = 0.75 (retriever.py 49), as fractions
K1Num == 3

K1Den == 2

BNum == 3

BDen == 4

RECURSIVE Count(_, _)
\* Counter(tokens)[term]
Count(tokens, term) ==
    IF tokens = <<>> THEN 0
    ELSE (IF Head(tokens) = term THEN 1 ELSE 0) + Count(Tail(tokens), term)

RECURSIVE Sum(_)
Sum(ns) == IF ns = <<>> THEN 0 ELSE Head(ns) + Sum(Tail(ns))

\* the index over the passages ids of heap h whose tokens are doc_tokens
Index(h, ids, doc_tokens) ==
    [heap |-> h,
     passages |-> ids,
     corpus_size |-> Len(ids),
     doc_tokens |-> doc_tokens,
     doc_lens |-> [i \in 1..Len(ids) |-> Len(doc_tokens[i])]]

\* BM25.__init__(passages): the passages are the objects ids on heap h
BM25(h, ids) == Index(h, ids, [i \in 1..Len(ids) |-> _tokenize(h[ids[i]].content)])

\* self.df.get(term, 0)
Df(bm25, term) ==
    Cardinality({i \in 1..bm25.corpus_size :
                    \E j \in 1..Len(bm25.doc_tokens[i]) : bm25.doc_tokens[i][j] = term})

RECURSIVE Halvings(_, _)
\* the k with 2^k * q <= p < 2^(k+1) * q, for p >= q > 0
Halvings(p, q) == IF p >= 2 * q THEN 1 + Halvings(p, 2 * q) ELSE 0

RECURSIVE Pow2(_)
Pow2(k) == IF k = 0 THEN 1 ELSE 2 * Pow2(k - 1)

\* a * b in units of 1/IdfScale
Mul(a, b) == (a * b) \div IdfScale

\* 2 atanh z = 2 (z + z^3 / 3 + z^5 / 5 + z^7 / 7), z and its square z2 in units of
\* 1/IdfScale
Atanh2(z, z2) ==
    2 * (z + Mul(z, z2) \div 3 + Mul(Mul(z, z2), z2) \div 5
           + Mul(Mul(Mul(z, z2), z2), z2) \div 7)

\* ln y in units of 1/IdfScale for y in [1, 2), z = (y - 1) / (y + 1)
LnUnit(z) == Atanh2(z, Mul(z, z))

\* ln(p / q) for 2^k q <= p < 2^(k+1) q
LnScaled(p, q, k) ==
    (k * 6931472) \div 1000 + LnUnit(((p - q * Pow2(k)) * IdfScale) \div (p + q * Pow2(k)))

\* math.log(p / q) in units of 1/IdfScale, for p >= q > 0:
\* ln x = k ln 2 + 2 atanh z, z = (y - 1) / (y + 1), y = x / 2^k in [1, 2)
Ln(p, q) == LnScaled(p, q, Halvings(p, q))

\* BM25._idf(term) = log((N - n + 0.5) / (n + 0.5) + 1) = log((2N + 2) / (2n + 1))
Idf(bm25, term) == Ln(2 * bm25.corpus_size + 2, 2 * Df(bm25, term) + 1)

\* avg_dl is 0 and the loops over the passages and the query tokens are entered:
\* self.b * dl / self.avg_dl raises ZeroDivisionError
ScoreRaises(bm25, query_tokens) ==
    query_tokens # <<>> /\ bm25.corpus_size > 0 /\ Sum(bm25.doc_lens) = 0

\* TermRatio with the term frequency left out of the numerator
TermRatioFlat(bm25, i, term) ==
    LET tf == Count(bm25.doc_tokens[i], term)
        dl == bm25.doc_lens[i]
        S == Sum(bm25.doc_lens)
        N == bm25.corpus_size
        num == (IF tf = 0 THEN 0 ELSE 1) * (K1Num + K1Den) * BDen * S
        den == tf * K1Den * BDen * S + K1Num * ((BDen - BNum) * S + BNum * dl * N)
    IN  (num * RatioScale) \div den

\* numerator / denominator of one query term for document i, in units of 1/RatioScale:
\* tf (k1 + 1) / (tf + k1 (1 - b + b dl / avg_dl)), with avg_dl = S / N
TermRatio(bm25, i, term) ==
    LET tf == Count(bm25.doc_tokens[i], term)
        dl == bm25.doc_lens[i]
        S == Sum(bm25.doc_lens)
        N == bm25.corpus_size
        num == tf * (K1Num + K1Den) * BDen * S
        den == tf * K1Den * BDen * S + K1Num * ((BDen - BNum) * S + BNum * dl * N)
    IN  (num * RatioScale) \div den

RECURSIVE SumTerms(_, _, _)
SumTerms(bm25, i, terms) ==
    IF terms = <<>> THEN 0
    ELSE (Idf(bm25, Head(terms)) * TermRatio(bm25, i, Head(terms))) \div RatioScale
         + SumTerms(bm25, i, Tail(terms))

\* the score of document i, weight applied
DocScore(bm25, i, query_tokens) ==
    SumTerms(bm25, i, query_tokens) * bm25.heap[bm25.passages[i]].weight

RECURSIVE InsertByScore(_, _)
\* x placed after every pair of sorted whose score is not less: a stable descending sort
InsertByScore(sorted, x) ==
    IF sorted = <<>> THEN <<x>>
    ELSE IF Head(sorted)[1] >= x[1] THEN <<Head(sorted)>> \o InsertByScore(Tail(sorted), x)
    ELSE <<x>> \o sorted

RECURSIVE SortByScore(_, _)
\* results.sort(key=lambda x: -x[0]), the pairs of results inserted from the n-th on
SortByScore(results, n) ==
    IF n = 0 THEN <<>>
    ELSE InsertByScore(SortByScore(results, n - 1), results[n])

\* the results left in the order of the passages
Unsorted(results) == results

\* results.sort(key=lambda x: -x[0])
Sort(results) == SortByScore(results, Len(results))

\* the pairs of scored with every score put to 0
ZeroScores(scored) == [i \in 1..Len(scored) |-> <<0, scored[i][2]>>]

\* for a query without a token, the candidates ordered by descending weight, each with
\* score 0
ZeroScoresByWeight(bm25, query_tokens) ==
    IF query_tokens = <<>>
    THEN ZeroScores(Sort([i \in 1..bm25.corpus_size |->
                             <<bm25.heap[bm25.passages[i]].weight, bm25.passages[i]>>]))
    ELSE Sort([i \in 1..bm25.corpus_size |->
                  <<DocScore(bm25, i, query_tokens), bm25.passages[i]>>])

\* the body of BM25.score after query_tokens = _tokenize(query)
ScoreTokens(bm25, query_tokens) ==
    IF query_tokens = <<>>
    THEN [i \in 1..bm25.corpus_size |-> <<0, bm25.passages[i]>>]
    ELSE Sort([i \in 1..bm25.corpus_size |->
                  <<DocScore(bm25, i, query_tokens), bm25.passages[i]>>])

\* BM25.score(query): the list of (score, passage) pairs, passage an object id
Score(bm25, query) == ScoreTokens(bm25, _tokenize(query))

\* ------------------------------------------------------------------ Query Heuristics

_SECTION_HINTS == <<
    <<<<"b","u","l","l">>, {<<"h","y","p","o","t","h","e","s","i","s">>, <<"v","e","r","d","i","c","t">>, <<"n","a","r","r","a","t","i","v","e">>}>>,
    <<<<"b","e","a","r">>, {<<"h","y","p","o","t","h","e","s","i","s">>, <<"v","e","r","d","i","c","t">>, <<"n","a","r","r","a","t","i","v","e">>}>>,
    <<<<"u","p","s","i","d","e">>, {<<"h","y","p","o","t","h","e","s","i","s">>, <<"v","e","r","d","i","c","t">>, <<"n","a","r","r","a","t","i","v","e">>}>>,
    <<<<"d","o","w","n","s","i","d","e">>, {<<"h","y","p","o","t","h","e","s","i","s">>, <<"v","e","r","d","i","c","t">>, <<"n","a","r","r","a","t","i","v","e">>}>>,
    <<<<"t","h","e","s","i","s">>, {<<"h","y","p","o","t","h","e","s","i","s">>, <<"v","e","r","d","i","c","t">>, <<"n","a","r","r","a","t","i","v","e">>}>>,
    <<<<"h","y","p","o","t","h","e","s","i","s">>, {<<"h","y","p","o","t","h","e","s","i","s">>}>>,
    <<<<"r","i","s","k">>, {<<"t","r","i","p","w","i","r","e">>, <<"d","i","s","c","r","i","m","i","n","a","t","o","r">>, <<"h","y","p","o","t","h","e","s","i","s">>, <<"e","v","i","d","e","n","c","e">>}>>,
    <<<<"c","a","t","a","l","y","s","t">>, {<<"t","r","i","p","w","i","r","e">>, <<"d","i","s","c","r","i","m","i","n","a","t","o","r">>}>>,
    <<<<"t","r","i","p","w","i","r","e">>, {<<"t","r","i","p","w","i","r","e">>}>>,
    <<<<"e","v","i","d","e","n","c","e">>, {<<"e","v","i","d","e","n","c","e">>}>>,
    <<<<"r","e","g","u","l","a","t","o","r","y">>, {<<"e","v","i","d","e","n","c","e">>}>>,
    <<<<"c","o","m","p","e","t","i","t","o","r">>, {<<"e","v","i","d","e","n","c","e">>}>>,
    <<<<"v","a","l","u","a","t","i","o","n">>, {<<"i","d","e","n","t","i","t","y">>, <<"r","e","f","e","r","e","n","c","e">>, <<"n","a","r","r","a","t","i","v","e">>}>>,
    <<<<"p","r","i","c","e">>, {<<"t","e","c","h","n","i","c","a","l">>, <<"i","d","e","n","t","i","t","y">>, <<"r","e","f","e","r","e","n","c","e">>}>>,
    <<<<"t","e","c","h","n","i","c","a","l">>, {<<"t","e","c","h","n","i","c","a","l">>}>>,
    <<<<"c","h","a","r","t">>, {<<"t","e","c","h","n","i","c","a","l">>}>>,
    <<<<"m","e","t","r","i","c">>, {<<"i","d","e","n","t","i","t","y">>, <<"r","e","f","e","r","e","n","c","e">>, <<"o","v","e","r","v","i","e","w">>}>>,
    <<<<"f","i","n","a","n","c","i","a","l">>, {<<"i","d","e","n","t","i","t","y">>, <<"r","e","f","e","r","e","n","c","e">>}>>,
    <<<<"d","i","v","i","d","e","n","d">>, {<<"i","d","e","n","t","i","t","y">>, <<"r","e","f","e","r","e","n","c","e">>}>>,
    <<<<"m","a","r","g","i","n">>, {<<"e","v","i","d","e","n","c","e">>, <<"h","y","p","o","t","h","e","s","i","s">>, <<"i","d","e","n","t","i","t","y">>}>>,
    <<<<"g","a","p">>, {<<"g","a","p","s">>}>>,
    <<<<"u","n","k","n","o","w","n">>, {<<"g","a","p","s">>}>>,
    <<<<"n","a","r","r","a","t","i","v","e">>, {<<"n","a","r","r","a","t","i","v","e">>}>>,
    <<<<"o","v","e","r","v","i","e","w">>, {<<"o","v","e","r","v","i","e","w">>}>>,
    <<<<"s","u","m","m","a","r","y">>, {<<"v","e","r","d","i","c","t">>, <<"o","v","e","r","v","i","e","w">>, <<"n","a","r","r","a","t","i","v","e">>}>>,
    <<<<"f","r","e","s","h">>, {<<"f","r","e","s","h","n","e","s","s">>}>> >>

\* the sections of the keywords found in the query as it is spelled, not lower-cased
DetectCaseSensitive(query) ==
    UNION {_SECTION_HINTS[n][2] : n \in {m \in 1..Len(_SECTION_HINTS) :
                                          Contains(query, _SECTION_HINTS[m][1])}}

\* _detect_section_boost(query): the sections to boost, as a set
_detect_section_boost(query) ==
    UNION {_SECTION_HINTS[n][2] : n \in {m \in 1..Len(_SECTION_HINTS) :
                                          Contains(Lower(query), _SECTION_HINTS[m][1])}}

\* p.weight = p.weight * num / 10 written into the passage itself: the boost that
\* copy-on-boost rules out
WriteWeight(h, id, num) == [heap |-> [h EXCEPT ![id].weight = (@ * num) \div 10], id |-> id]

\* a copy whose weight is the factor num / 10 itself, not the weight times the factor
CopySetsWeight(h, id, num) ==
    [heap |-> Append(h, [h[id] EXCEPT !.weight = num * 100]), id |-> Len(h) + 1]

\* Passage(p.ticker, p.section, p.subsection, p.content, p.tags, p.weight * num / 10):
\* a new object, the heap with it allocated and its id (retriever.py 176, 188, 233)
CopyWithWeight(h, id, num) ==
    [heap |-> Append(h, [h[id] EXCEPT !.weight = (@ * num) \div 10]), id |-> Len(h) + 1]

\* the list with the passage id put before it, on the heap the rest of the loop left
Boosted(id, rest) == [heap |-> rest.heap, passages |-> <<id>> \o rest.passages]

RECURSIVE BoostLoop(_, _, _, _, _)
\* boosted.append(p_copy), then the rest of the loop
BoostCopy(copy, ids, hits, num, i) ==
    Boosted(copy.id, BoostLoop(copy.heap, ids, hits, num, i + 1))

\* the loop "for p in passages: if hit: boosted.append(copy) else: boosted.append(p)"
\* from the i-th passage on: [heap, passages] with passages the list built
BoostLoop(h, ids, hits, num, i) ==
    IF i > Len(ids) THEN [heap |-> h, passages |-> <<>>]
    ELSE IF hits[i] THEN BoostCopy(CopyWithWeight(h, ids[i], num), ids, hits, num, i)
    ELSE Boosted(ids[i], BoostLoop(h, ids, hits, num, i + 1))

\* value in p.tags
HasTag(p, value) == \E i \in 1..Len(p.tags) : p.tags[i] = PStr(value)

\* an alignment taken as the direction it spells, with no direction_map
SameDirection(alignment_lower) == alignment_lower

\* direction_map.get(alignment_lower, alignment_lower)
Direction(alignment_lower) ==
    CASE alignment_lower = <<"b","u","l","l","i","s","h">> -> <<"u","p","s","i","d","e">>
      [] alignment_lower = <<"b","u","l","l">> -> <<"u","p","s","i","d","e">>
      [] alignment_lower = <<"b","e","a","r","i","s","h">> -> <<"d","o","w","n","s","i","d","e">>
      [] alignment_lower = <<"b","e","a","r">> -> <<"d","o","w","n","s","i","d","e">>
      [] OTHER -> alignment_lower

\* the body of _filter_by_alignment after alignment_lower = alignment.lower().strip()
FilterByAlignment(h, ids, alignment_lower) ==
    IF alignment_lower \in {<<"t","1">>, <<"t","2">>, <<"t","3">>, <<"t","4">>}
    THEN BoostLoop(h, ids, [i \in 1..Len(ids) |-> HasTag(h[ids[i]], alignment_lower)], 15, 1)
    ELSE IF Direction(alignment_lower) \in {<<"u","p","s","i","d","e">>, <<"d","o","w","n","s","i","d","e">>, <<"n","e","u","t","r","a","l">>}
    THEN BoostLoop(h, ids,
                   [i \in 1..Len(ids) |-> HasTag(h[ids[i]], Direction(alignment_lower))],
                   13, 1)
    ELSE [heap |-> h, passages |-> ids]

\* _filter_by_alignment(passages, alignment): [heap, passages]; alignment is PNone or a PStr
_filter_by_alignment(h, ids, alignment) ==
    IF ~Truthy(alignment) THEN [heap |-> h, passages |-> ids]
    ELSE FilterByAlignment(h, ids, Strip(Lower(alignment.s)))

RECURSIVE ScaleWeights(_, _, _, _)
\* "p.weight = p.weight * 1.4" for the passages of ids that hit, from the i-th on
ScaleWeights(h, ids, hits, i) ==
    IF i > Len(ids) THEN h
    ELSE ScaleWeights(IF hits[i] THEN [h EXCEPT ![ids[i]].weight = (@ * 14) \div 10] ELSE h,
                      ids, hits, i + 1)

\* the section boosting done in place, on the passages of the list it is given
BoostSectionsInPlace(h, ids, boosted_sections) ==
    [heap |-> ScaleWeights(h, ids,
                           [i \in 1..Len(ids) |-> h[ids[i]].section \in boosted_sections], 1),
     passages |-> ids]

\* the section boosting of retrieve after boosted_sections = _detect_section_boost(query)
\* (retriever.py 228-237)
BoostSections(h, ids, boosted_sections) ==
    IF boosted_sections # {}
    THEN BoostLoop(h, ids, [i \in 1..Len(ids) |-> h[ids[i]].section \in boosted_sections],
                   14, 1)
    ELSE [heap |-> h, passages |-> ids]

\* the section boosting of retrieve (retriever.py 227-237): [heap, passages]
SectionBoost(h, ids, query) == BoostSections(h, ids, _detect_section_boost(query))

\* ------------------------------------------------------------------ retrieve

\* round(score, 3) in thousandths, ties to even
Round3(score) ==
    LET q == score \div IdfScale
        r == score % IdfScale
    IN  IF 2 * r > IdfScale \/ (2 * r = IdfScale /\ q % 2 = 1) THEN q + 1 ELSE q

\* passage.to_dict() with result["relevance_score"] = round(score, 3)
ResultDict(p, score) ==
    [ticker |-> p.ticker, section |-> p.section, subsection |-> p.subsection,
     content |-> p.content, tags |-> p.tags, weight |-> p.weight,
     relevance_score |-> Round3(score)]

\* scored[:max_passages], for max_passages >= 0
Take(xs, n) == SubSeq(xs, 1, IF n < Len(xs) THEN n ELSE Len(xs))

\* what a call of retrieve leaves:
\*   raised   the call raises (ZeroDivisionError in BM25.score)
\*   result   the list returned
\*   heap     the heap when the call ends, the copies the call made included
Retrieved(raised, result, h) == [raised |-> raised, result |-> result, heap |-> h]

\* the loop that builds results from scored[:max_passages] (retriever.py 244-250)
Results(h, top) == [i \in 1..Len(top) |-> ResultDict(h[top[i][2]], top[i][1])]

\* bm25.score(query) and the top-k (retriever.py 240-250)
RetrieveScored(bm25, query_tokens, max_passages) ==
    IF ScoreRaises(bm25, query_tokens) THEN Retrieved(TRUE, <<>>, bm25.heap)
    ELSE Retrieved(FALSE,
                   Results(bm25.heap, Take(ScoreTokens(bm25, query_tokens), max_passages)),
                   bm25.heap)

\* retrieve from "bm25 = BM25(passages)" on (retriever.py 239-250)
RetrieveBoosted(boosted, query, max_passages) ==
    RetrieveScored(BM25(boosted.heap, boosted.passages), _tokenize(query), max_passages)

\* retrieve from the section boosting on (retriever.py 227-250)
RetrieveAligned(aligned, query, max_passages) ==
    RetrieveBoosted(SectionBoost(aligned.heap, aligned.passages, query), query, max_passages)

\* the section pass reading the stored passages instead of the output of the alignment
\* pass
RetrieveUnaligned(h, passages, query, thesis_alignment, max_passages) ==
    IF passages = <<>> THEN Retrieved(FALSE, <<>>, h)
    ELSE RetrieveAligned([heap |-> _filter_by_alignment(h, passages, thesis_alignment).heap,
                          passages |-> passages],
                         query, max_passages)

\* retrieve after passages = get_passages(ticker) (retriever.py 220-250)
RetrieveFrom(h, passages, query, thesis_alignment, max_passages) ==
    IF passages = <<>> THEN Retrieved(FALSE, <<>>, h)
    ELSE RetrieveAligned(_filter_by_alignment(h, passages, thesis_alignment), query,
                         max_passages)

\* retrieve(query, ticker, thesis_alignment, max_passages) on the globals g
retrieve(g, query, ticker, thesis_alignment, max_passages) ==
    RetrieveFrom(g.heap, get_passages(g, ticker), query, thesis_alignment, max_passages)

\* ------------------------------------------------------------------ inputs

\* the largest max_passages a caller passes
MaxK == 2

\* ticker entries of a source document
EntryAB == <<"S","T","O","C","K","_","D","A","T","A",".","A","B"," ","="," ","{","c","o","m","p","a","n","y",":","'","A","c","m","e","'",","," ","h","y","p","o","t","h","e","s","e","s",":","[","{","t","i","e","r",":","'","t","1","'",","," ","d","i","r","e","c","t","i","o","n",":","'","u","p","s","i","d","e","'",","," ","t","i","t","l","e",":","'","p","r","i","c","e"," ","r","i","s","k","'","}","]","}",";">>

EntryCD == <<"S","T","O","C","K","_","D","A","T","A",".","C","D"," ","="," ","{","s","k","e","w",":","{","d","i","r","e","c","t","i","o","n",":","'","d","o","w","n","s","i","d","e","'",","," ","r","a","t","i","o","n","a","l","e",":","'","b","e","a","r"," ","r","i","s","k","'","}","}",";">>

\* the empty object literal
EntryEmpty == <<"S","T","O","C","K","_","D","A","T","A",".","E","F"," ","="," ","{","}",";">>

\* a block whose braces do not balance
EntryUnbalanced == <<"S","T","O","C","K","_","D","A","T","A",".","G","H"," ","="," ","{","c","o","m","p","a","n","y",":","'","x","'">>

\* a balanced literal that is no JSON after normalization (a bare identifier as value)
EntryNotJson == <<"S","T","O","C","K","_","D","A","T","A",".","I","J"," ","="," ","{","c","o","m","p","a","n","y",":","x","}",";">>

\* a well-formed literal whose identity field is a string where the chunker reads a dict
EntryIllTyped == <<"S","T","O","C","K","_","D","A","T","A",".","K","L"," ","="," ","{","i","d","e","n","t","i","t","y",":","'","x","'","}",";">>

\* a well-formed literal with none of the fields the chunker reads
EntryNoFields == <<"S","T","O","C","K","_","D","A","T","A",".","M","N"," ","="," ","{","f","o","o",":","1","}",";">>

\* a well-formed literal whose only passage has no token
EntryNoToken == <<"S","T","O","C","K","_","D","A","T","A",".","P","Q"," ","="," ","{","h","e","r","o","D","e","s","c","r","i","p","t","i","o","n",":","'","!","!","'","}",";">>

ReferenceBlock == <<"c","o","n","s","t"," ","R","E","F","E","R","E","N","C","E","_","D","A","T","A"," ","="," ","{","A","B",":","{","r","o","e",":","2","5","}","}",";">>

ReferenceUnbalanced == <<"c","o","n","s","t"," ","R","E","F","E","R","E","N","C","E","_","D","A","T","A"," ","="," ","{","A","B",":","{","r","o","e",":","2","5","}",";">>

FreshnessBlock == <<"c","o","n","s","t"," ","F","R","E","S","H","N","E","S","S","_","D","A","T","A"," ","="," ","{","A","B",":","{","s","t","a","t","u","s",":","'","f","r","e","s","h","'","}","}",";">>

\* the lines of a document
Lines(entries) == Join(<<"\n">>, entries)

\* the source documents ingested
Documents == <<
    <<>>,
    Lines(<<EntryAB>>),
    Lines(<<EntryCD, EntryAB>>),
    Lines(<<EntryAB, EntryEmpty, EntryNoFields>>),
    Lines(<<EntryUnbalanced, EntryAB>>),
    Lines(<<EntryNotJson, EntryCD>>),
    Lines(<<EntryAB, EntryIllTyped, EntryCD>>),
    Lines(<<EntryNoToken>>),
    Lines(<<ReferenceBlock, FreshnessBlock, EntryAB>>),
    Lines(<<ReferenceUnbalanced, EntryAB>>) >>

Files == {File(Documents[i]) : i \in 1..Len(Documents)} \cup {Unreadable}

Queries == {<<"p","r","i","c","e"," ","r","i","s","k">>, <<"t","h","e">>}

Tickers == {PNone, PStr(<<>>), PStr(<<"A","B">>), PStr(<<"a","b">>), PStr(<<"Z","Z">>), PStr(<<"M","N">>), PStr(<<"P","Q">>)}

Alignments == {PNone, PStr(<<"b","u","l","l">>)}

\* ------------------------------------------------------------------ state machine

\* no ingest call is in progress
Idle == [pc |-> "idle"]

\* the module globals of the current state
G == Globals(heap, _store, _all_passages)

Returned(value) == [kind |-> "returned", value |-> value]

Raised == [kind |-> "raised"]

\* the globals of a fresh process: _store = {}, _all_passages = [] (ingest.py 625-626)
Init ==
    /\ heap = <<>>
    /\ _store = EmptyDict
    /\ _all_passages = <<>>
    /\ ing = Idle
    /\ call = [op |-> "none"]
    /\ ret = [kind |-> "none"]
    /\ heap0 = <<>>

\* the end of a call of ingest that leaves done
IngestEnds(done) ==
    /\ heap' = done.g.heap
    /\ _store' = done.g.store
    /\ _all_passages' = done.g.all
    /\ heap0' = done.g.heap
    /\ ret' = IF done.raised THEN Raised ELSE Returned(done.g.store)

\* ingest(html_path), the whole call
Ingest(file) ==
    /\ ing = Idle
    /\ IngestEnds(ingest(G, file))
    /\ call' = [op |-> "ingest", file |-> file, frame |-> ing]
    /\ UNCHANGED ing

\* the end of a call of retrieve that leaves r: the stored objects are what the call
\* leaves of them, the copies it made are garbage once it ends
RetrieveEnds(r) ==
    /\ heap' = SubSeq(r.heap, 1, Len(heap))
    /\ ret' = IF r.raised THEN Raised ELSE Returned(r.result)

\* retrieve(query, ticker, thesis_alignment, max_passages), the whole call
Retrieve(query, ticker, thesis_alignment, max_passages) ==
    /\ RetrieveEnds(retrieve(G, query, ticker, thesis_alignment, max_passages))
    /\ call' = [op |-> "retrieve", query |-> query, ticker |-> ticker,
                thesis_alignment |-> thesis_alignment, max_passages |-> max_passages,
                frame |-> ing]
    /\ UNCHANGED <<_store, _all_passages, ing, heap0>>

\* get_passages(ticker): the list returned, as the Passage values it holds
GetPassages(ticker) ==
    /\ ret' = Returned(Deref(heap, get_passages(G, ticker)))
    /\ call' = [op |-> "get_passages", ticker |-> ticker, frame |-> ing]
    /\ UNCHANGED <<heap, _store, _all_passages, ing, heap0>>

GetTickers ==
    /\ ret' = Returned(get_tickers(G))
    /\ call' = [op |-> "get_tickers", frame |-> ing]
    /\ UNCHANGED <<heap, _store, _all_passages, ing, heap0>>

GetPassageCount ==
    /\ ret' = Returned(get_passage_count(G))
    /\ call' = [op |-> "get_passage_count", frame |-> ing]
    /\ UNCHANGED <<heap, _store, _all_passages, ing, heap0>>

Next ==
    \/ \E file \in Files : Ingest(file)
    \/ \E query \in Queries, ticker \in Tickers, thesis_alignment \in Alignments,
          max_passages \in 1..MaxK :
           Retrieve(query, ticker, thesis_alignment, max_passages)
    \/ \E ticker \in Tickers : GetPassages(ticker)
    \/ GetTickers
    \/ GetPassageCount

\* The calls of the API one at a time, in any order
Spec == Init /\ [][Next]_vars

\* ------------------------------------------------------------------ re-ingestion, step by step

\* A call of ingest taken one statement at a time, the readers running between its
\* statements as the threads of one process do. The frame ing of the call in progress:
\*   pc       the statement it is at
\*   stocks, ref_data, fresh_data   its locals (ingest.py 640-642)
\*   i        the item of stocks.items() the loop is at
\*   before   the globals when the call began, the previous corpus
\*   after    the globals a run to completion of the call leaves, the new corpus
\* Every reader is taken as one step.
Frame(pc, file, stocks, ref_data, fresh_data, i, before, after) ==
    [pc |-> pc, file |-> file, stocks |-> stocks, ref_data |-> ref_data,
     fresh_data |-> fresh_data, i |-> i, before |-> before, after |-> after]

FrameAt(frame, pc) == [frame EXCEPT !.pc = pc]

\* the tickers the interleaved readers ask for
TickersConc == {PNone, PStr(<<"A","B">>), PStr(<<"C","D">>)}

\* the documents re-ingested
FilesConc == {File(Documents[2]), File(Documents[3]), File(Documents[7]), Unreadable}

\* the corpus a run to completion of ingest leaves: the new one, or the previous one
\* where the call fails
CorpusAfter(g, done) == IF done.raised THEN g ELSE done.g

\* with open(path) as f: html = f.read(), and the three extractions (ingest.py 637-642)
IngestOpen(file) ==
    /\ ing = Idle
    /\ IF file.readable
       THEN /\ ing' = Frame("reset_store", file, _extract_js_objects(file.text),
                            _extract_reference_data(file.text),
                            _extract_freshness_data(file.text), 1, G,
                            CorpusAfter(G, ingest(G, file)))
            /\ UNCHANGED <<call, ret>>
       ELSE /\ ing' = Idle
            /\ call' = [op |-> "ingest", file |-> file, frame |-> Idle]
            /\ ret' = Raised
    /\ UNCHANGED <<heap, _store, _all_passages, heap0>>

\* _store = {} (ingest.py 644)
IngestResetStore ==
    /\ ing.pc = "reset_store"
    /\ _store' = ResetStore(G).store
    /\ ing' = FrameAt(ing, "reset_all")
    /\ UNCHANGED <<heap, _all_passages, heap0, call, ret>>

\* the globals become g
Becomes(g) ==
    /\ heap' = g.heap
    /\ heap0' = g.heap
    /\ _store' = g.store
    /\ _all_passages' = g.all

\* _all_passages = [] (ingest.py 645)
IngestResetAll ==
    /\ ing.pc = "reset_all"
    /\ Becomes(ResetAllPassages(G))
    /\ ing' = FrameAt(ing, "loop")
    /\ UNCHANGED <<call, ret>>

\* the call ends by an exception of _chunk_stock
IngestRaises ==
    /\ ing' = Idle
    /\ call' = [op |-> "ingest", file |-> ing.file, frame |-> Idle]
    /\ ret' = Raised
    /\ UNCHANGED <<heap, _store, _all_passages, heap0>>

\* _store[ticker] = passages for the ticker and its data (ingest.py 648-651)
IngestStores(ticker, data, ref, fresh) ==
    IF ChunkRaises(data, ref, fresh) THEN IngestRaises
    ELSE /\ Becomes(StoreTicker(G, ticker, _chunk_stock(ticker, data, ref, fresh)))
         /\ ing' = FrameAt(ing, "extend")
         /\ UNCHANGED <<call, ret>>

\* the loop at its i-th item, up to _store[ticker] = passages (ingest.py 647-651)
IngestChunk ==
    /\ ing.pc = "loop"
    /\ ing.i <= Len(ing.stocks.ks)
    /\ IngestStores(ing.stocks.ks[ing.i], ing.stocks.vs[ing.i],
                    Get(ing.ref_data, ing.stocks.ks[ing.i]),
                    Get(ing.fresh_data, ing.stocks.ks[ing.i]))

\* _all_passages.extend(passages) (ingest.py 652)
IngestExtend ==
    /\ ing.pc = "extend"
    /\ Becomes(ExtendAll(G, ing.stocks.ks[ing.i]))
    /\ ing' = [ing EXCEPT !.pc = "loop", !.i = @ + 1]
    /\ UNCHANGED <<call, ret>>

\* return _store (ingest.py 654)
IngestReturn ==
    /\ ing.pc = "loop"
    /\ ing.i > Len(ing.stocks.ks)
    /\ ing' = Idle
    /\ call' = [op |-> "ingest", file |-> ing.file, frame |-> Idle]
    /\ ret' = Returned(_store)
    /\ UNCHANGED <<heap, _store, _all_passages, heap0>>

NextConc ==
    \/ \E file \in FilesConc : IngestOpen(file)
    \/ IngestResetStore
    \/ IngestResetAll
    \/ IngestChunk
    \/ IngestExtend
    \/ IngestReturn
    \/ \E query \in Queries, ticker \in TickersConc : Retrieve(query, ticker, PNone, MaxK)
    \/ \E ticker \in TickersConc : GetPassages(ticker)
    \/ GetTickers
    \/ GetPassageCount

\* A writer thread that re-ingests and reader threads, interleaved
SpecConc == Init /\ [][NextConc]_vars

\* the statements of ingest compose to the call taken whole: when the call returns, the
\* globals are those a run to completion leaves
StepsAgree ==
    (ing.pc = "loop" /\ ing.i > Len(ing.stocks.ks)) => G = ing.after

\* ------------------------------------------------------------------ the extractor alone

\* the longest document text
MaxLen == 5

\* the characters the scan of _extract_balanced_braces tells apart, and one it does not
Alphabet == {"{", "}", "'", "\"", "\\", "a"}

Texts == UNION {[1..n -> Alphabet] : n \in 0..MaxLen}

NoGlobals ==
    /\ heap = <<>>
    /\ heap0 = <<>>
    /\ _store = EmptyDict
    /\ _all_passages = <<>>
    /\ ing = Idle

InitExtract ==
    /\ NoGlobals
    /\ \E text \in Texts : \E start \in 0..Len(text) :
           call = [op |-> "extract", text |-> text, start |-> start]
    /\ ret = [kind |-> "none"]

\* _extract_balanced_braces(text, start)
Extract ==
    /\ ret.kind = "none"
    /\ call.op = "extract"
    /\ ret' = Returned(_extract_balanced_braces(call.text, call.start))
    /\ UNCHANGED <<heap, _store, _all_passages, ing, call, heap0>>

NextExtract == Extract

SpecExtract == InitExtract /\ [][NextExtract]_vars

\* ------------------------------------------------------------------ the boosting passes alone

\* the longest list of candidate passages
MaxPassages == 2

\* the tags of a candidate passage
TagLists == {
    <<>>,
    <<PStr(<<"h","y","p","o","t","h","e","s","i","s">>), PStr(<<"t","1">>), PStr(<<"u","p","s","i","d","e">>)>>,
    <<PStr(<<"h","y","p","o","t","h","e","s","i","s">>), PStr(<<"t","2">>), PStr(<<"d","o","w","n","s","i","d","e">>)>>,
    <<PStr(<<"v","e","r","d","i","c","t">>), PStr(<<"n","e","u","t","r","a","l">>)>>,
    <<PStr(<<"b","u","l","l">>), PStr(<<"T","2">>)>> }

Sections == {<<"h","y","p","o","t","h","e","s","i","s">>, <<"t","e","c","h","n","i","c","a","l">>, <<"t","r","i","p","w","i","r","e">>, <<"f","r","e","s","h","n","e","s","s">>}

\* the prior weights the chunker gives: 1.0, 1.3 (ingest.py 253-618)
Candidates ==
    {Passage(<<"A","B">>, section, PStr(<<"x">>), <<"r","i","s","k">>, tags, Weight(tenths)) :
        section \in {<<"h","y","p","o","t","h","e","s","i","s">>}, tags \in TagLists, tenths \in {10, 13}}

CandidatesBySection ==
    {Passage(<<"A","B">>, section, PStr(<<"x">>), <<"r","i","s","k">>, <<>>, Weight(tenths)) :
        section \in Sections, tenths \in {10, 13}}

Lists(S) == UNION {[1..n -> S] : n \in 0..MaxPassages}

AlignmentTokens == {
    PNone, PStr(<<>>), PStr(<<" ">>), PStr(<<"t","1">>), PStr(<<"t","2">>), PStr(<<"T","2"," ">>), PStr(<<"t","5">>),
    PStr(<<"b","u","l","l","i","s","h">>), PStr(<<"b","u","l","l">>), PStr(<<"b","e","a","r","i","s","h">>), PStr(<<"b","e","a","r">>), PStr(<<"n","e","u","t","r","a","l">>),
    PStr(<<"u","p","s","i","d","e">>), PStr(<<"d","o","w","n","s","i","d","e">>), PStr(<<"B","u","l","l">>), PStr(<<"u","p">>) }

\* the passages are objects 1..n of the heap, in the order of the list
InitAlign ==
    /\ \E passages \in Lists(Candidates) : \E alignment \in AlignmentTokens :
           /\ heap = passages
           /\ heap0 = passages
           /\ call = [op |-> "align", passages |-> [i \in 1..Len(passages) |-> i],
                      alignment |-> alignment]
    /\ _store = EmptyDict
    /\ _all_passages = <<>>
    /\ ing = Idle
    /\ ret = [kind |-> "none"]

\* the end of a boosting pass that leaves boosted: the list returned as the Passage
\* values it holds, and the objects passed in as the pass leaves them
PassEnds(boosted) ==
    /\ ret' = Returned(Deref(boosted.heap, boosted.passages))
    /\ heap' = SubSeq(boosted.heap, 1, Len(heap))

\* _filter_by_alignment(passages, alignment)
Align ==
    /\ ret.kind = "none"
    /\ call.op = "align"
    /\ PassEnds(_filter_by_alignment(heap, call.passages, call.alignment))
    /\ UNCHANGED <<_store, _all_passages, ing, call, heap0>>

NextAlign == Align

SpecAlign == InitAlign /\ [][NextAlign]_vars

SectionQueries == {
    <<>>, <<"r","i","s","k">>, <<"R","I","S","K">>, <<"b","r","i","s","k">>, <<"h","e","l","l","o">>, <<"T","h","e","s","i","s"," ","R","I","S","K">>, <<"P","r","i","c","e">>, <<"c","h","a","r","t"," ","p","r","i","c","e">>,
    <<"w","h","a","t"," ","i","s"," ","t","h","e"," ","b","e","a","r"," ","c","a","s","e">> }

InitSection ==
    /\ \E passages \in Lists(CandidatesBySection) : \E query \in SectionQueries :
           /\ heap = passages
           /\ heap0 = passages
           /\ call = [op |-> "section_boost", passages |-> [i \in 1..Len(passages) |-> i],
                      query |-> query]
    /\ _store = EmptyDict
    /\ _all_passages = <<>>
    /\ ing = Idle
    /\ ret = [kind |-> "none"]

\* the section boosting of retrieve (retriever.py 227-237)
BoostBySection ==
    /\ ret.kind = "none"
    /\ call.op = "section_boost"
    /\ PassEnds(SectionBoost(heap, call.passages, call.query))
    /\ UNCHANGED <<_store, _all_passages, ing, call, heap0>>

NextSection == BoostBySection

SpecSection == InitSection /\ [][NextSection]_vars

\* ------------------------------------------------------------------ ranking alone

\* the longest list of hypotheses of a record
MaxHyps == 2

\* the hypotheses of a record: {tier:'t1', direction:'upside', title:'risk'} and
\* {tier:'t2', direction:'downside', title:'risk risk acme'}
Hypotheses == {
    PDict(<<<<"t","i","e","r">>, <<"d","i","r","e","c","t","i","o","n">>, <<"t","i","t","l","e">>>>, <<PStr(<<"t","1">>), PStr(<<"u","p","s","i","d","e">>), PStr(<<"r","i","s","k">>)>>),
    PDict(<<<<"t","i","e","r">>, <<"d","i","r","e","c","t","i","o","n">>, <<"t","i","t","l","e">>>>,
          <<PStr(<<"t","2">>), PStr(<<"d","o","w","n","s","i","d","e">>), PStr(<<"r","i","s","k"," ","r","i","s","k"," ","a","c","m","e">>)>>) }

\* the fields of a record that give its overview passage: none, a company, or a
\* description without a token
OverviewFields == {
    EmptyDict,
    PDict(<<<<"c","o","m","p","a","n","y">>>>, <<PStr(<<"A","c","m","e"," ","r","i","s","k">>)>>),
    PDict(<<<<"h","e","r","o","D","e","s","c","r","i","p","t","i","o","n">>>>, <<PStr(<<"!","!">>)>>) }

\* the fields that give the skew passage: none, or {direction:'upside', rationale:'risk'}
SkewFields == {
    EmptyDict,
    PDict(<<<<"s","k","e","w">>>>,
          <<PDict(<<<<"d","i","r","e","c","t","i","o","n">>, <<"r","a","t","i","o","n","a","l","e">>>>, <<PStr(<<"u","p","s","i","d","e">>), PStr(<<"r","i","s","k">>)>>)>>) }

\* the field that gives the hypothesis passages, none for no hypothesis
HypothesesField(hyps) ==
    IF hyps = <<>> THEN EmptyDict ELSE PDict(<<<<"h","y","p","o","t","h","e","s","e","s">>>>, <<PList(hyps)>>)

\* the record with the fields of a, then those of b
Fields(a, b) == PDict(a.ks \o b.ks, a.vs \o b.vs)

\* the normalized records of the ticker whose passages are ranked
Records ==
    {Fields(Fields(overview, skew), HypothesesField(hyps)) :
        overview \in OverviewFields, skew \in SkewFields,
        hyps \in UNION {[1..n -> Hypotheses] : n \in 0..MaxHyps}}

RankQueries == {<<"r","i","s","k">>, <<"a","c","m","e"," ","r","i","s","k">>, <<"a","c","m","e">>, <<"t","h","e","s","i","s">>, <<"t","h","e">>}

RankAlignments == {PNone, PStr(<<"t","1">>), PStr(<<"b","u","l","l">>), PStr(<<"b","e","a","r">>)}

\* the ticker whose passages are ranked
RankTicker == PStr(<<"A","B">>)

\* the globals after the ingest of a document whose one ticker has the record data
Corpus(data) == IngestItem(EmptyGlobals, RankTicker.s, data, PNone, PNone).g

InitRank ==
    /\ \E data \in Records :
           /\ heap = Corpus(data).heap
           /\ heap0 = Corpus(data).heap
           /\ _store = Corpus(data).store
           /\ _all_passages = Corpus(data).all
    /\ ing = Idle
    /\ call = [op |-> "none"]
    /\ ret = [kind |-> "none"]

\* the end of a call of BM25.score on the index bm25
ScoreEnds(bm25, query_tokens) ==
    ret' = IF ScoreRaises(bm25, query_tokens) THEN Raised
           ELSE Returned(ScoreTokens(bm25, query_tokens))

\* BM25(passages).score(query), passages the candidates of the ticker
BM25Score(query, ticker) ==
    /\ ret.kind = "none"
    /\ ScoreEnds(BM25(heap, get_passages(G, ticker)), _tokenize(query))
    /\ call' = [op |-> "score", query |-> query, passages |-> get_passages(G, ticker)]
    /\ UNCHANGED <<heap, _store, _all_passages, ing, heap0>>

\* one call of retrieve on the corpus
Rank(query, ticker, thesis_alignment, max_passages) ==
    /\ ret.kind = "none"
    /\ Retrieve(query, ticker, thesis_alignment, max_passages)

NextRank ==
    \/ \E query \in RankQueries, thesis_alignment \in RankAlignments,
          max_passages \in 1..MaxK :
           Rank(query, RankTicker, thesis_alignment, max_passages)
    \/ \E query \in RankQueries : BM25Score(query, RankTicker)

\* one call of retrieve or of BM25.score on the corpus of one ticker
SpecRank == InitRank /\ [][NextRank]_vars

\* ------------------------------------------------------------------ concurrent retrievals

\* the number of retrieve calls in flight at once
MaxCalls == 2

Callers == 1..MaxCalls

\* MAX_PASSAGES (config.py 18), the default of max_passages
MAX_PASSAGES == 12

ParQueries == {<<"r","i","s","k">>, <<"t","h","e">>}

ParAlignments == {PNone, PStr(<<"t","1">>)}

\* the records of the ticker the callers ask for: one passage without a token; an
\* overview, a skew and a hypothesis passage
ParRecords == {
    PDict(<<<<"h","e","r","o","D","e","s","c","r","i","p","t","i","o","n">>>>, <<PStr(<<"!","!">>)>>),
    PDict(<<<<"c","o","m","p","a","n","y">>, <<"s","k","e","w">>, <<"h","y","p","o","t","h","e","s","e","s">>>>,
          <<PStr(<<"A","c","m","e"," ","r","i","s","k">>),
            PDict(<<<<"d","i","r","e","c","t","i","o","n">>, <<"r","a","t","i","o","n","a","l","e">>>>, <<PStr(<<"u","p","s","i","d","e">>), PStr(<<"r","i","s","k">>)>>),
            PList(<<PDict(<<<<"t","i","e","r">>, <<"d","i","r","e","c","t","i","o","n">>, <<"t","i","t","l","e">>>>,
                          <<PStr(<<"t","1">>), PStr(<<"u","p","s","i","d","e">>), PStr(<<"r","i","s","k">>)>>)>>)>>) }

\* the frame of a call of retrieve: its position, its arguments and its locals
\*   passages    the list the local passages is bound to, as object ids
\*   doc_tokens  bm25.doc_tokens
\*   scored      the list bm25.score returned
Call(pc, query, ticker, thesis_alignment, max_passages, passages, doc_tokens, scored) ==
    [pc |-> pc, query |-> query, ticker |-> ticker, thesis_alignment |-> thesis_alignment,
     max_passages |-> max_passages, passages |-> passages, doc_tokens |-> doc_tokens,
     scored |-> scored]

NotCalled == Call("idle", <<>>, PNone, PNone, 0, <<>>, <<>>, <<>>)

InitPar ==
    /\ \E data \in ParRecords :
           /\ heap = Corpus(data).heap
           /\ heap0 = Corpus(data).heap
           /\ _store = Corpus(data).store
           /\ _all_passages = Corpus(data).all
    /\ ing = Idle
    /\ call = [t \in Callers |-> NotCalled]
    /\ ret = [t \in Callers |-> [kind |-> "none"]]

\* the caller t goes on at pc with its local passages bound to the list boosted.passages,
\* the copies of boosted.heap allocated
Proceeds(t, pc, boosted) ==
    /\ heap' = boosted.heap
    /\ call' = [call EXCEPT ![t].pc = pc, ![t].passages = boosted.passages]
    /\ UNCHANGED <<_store, _all_passages, ing, ret, heap0>>

\* the call of the caller t ends with r
Ends(t, r) ==
    /\ call' = [call EXCEPT ![t].pc = "done"]
    /\ ret' = [ret EXCEPT ![t] = r]
    /\ UNCHANGED <<heap, _store, _all_passages, ing, heap0>>

\* the caller t calls retrieve(query, ticker, thesis_alignment): passages =
\* get_passages(ticker), "if not passages: return []" (retriever.py 220-222)
ParCall(t, query, ticker, thesis_alignment) ==
    /\ call[t].pc = "idle"
    /\ IF get_passages(G, ticker) = <<>>
       THEN /\ call' = [call EXCEPT ![t] = Call("done", query, ticker, thesis_alignment,
                                                MAX_PASSAGES, <<>>, <<>>, <<>>)]
            /\ ret' = [ret EXCEPT ![t] = Returned(<<>>)]
       ELSE /\ call' = [call EXCEPT ![t] = Call("align", query, ticker, thesis_alignment,
                                                MAX_PASSAGES, get_passages(G, ticker),
                                                <<>>, <<>>)]
            /\ UNCHANGED ret
    /\ UNCHANGED <<heap, _store, _all_passages, ing, heap0>>

\* if thesis_alignment: passages = _filter_by_alignment(...) (retriever.py 224-225)
ParAlign(t) ==
    /\ call[t].pc = "align"
    /\ Proceeds(t, "section",
                _filter_by_alignment(heap, call[t].passages, call[t].thesis_alignment))

\* the section boosting (retriever.py 227-237)
ParSection(t) ==
    /\ call[t].pc = "section"
    /\ Proceeds(t, "index", SectionBoost(heap, call[t].passages, call[t].query))

\* bm25 = BM25(passages) (retriever.py 240)
ParIndex(t) ==
    /\ call[t].pc = "index"
    /\ call' = [call EXCEPT ![t].pc = "score",
                            ![t].doc_tokens = BM25(heap, call[t].passages).doc_tokens]
    /\ UNCHANGED <<heap, _store, _all_passages, ing, ret, heap0>>

\* the index of the caller t, the passages as they are on the heap now
IndexOf(t) == Index(heap, call[t].passages, call[t].doc_tokens)

\* scored = bm25.score(query) (retriever.py 241)
ParScore(t) ==
    /\ call[t].pc = "score"
    /\ IF ScoreRaises(IndexOf(t), _tokenize(call[t].query))
       THEN Ends(t, Raised)
       ELSE /\ call' = [call EXCEPT ![t].pc = "results",
                                    ![t].scored =
                                        ScoreTokens(IndexOf(t), _tokenize(call[t].query))]
            /\ UNCHANGED <<heap, _store, _all_passages, ing, ret, heap0>>

\* the loop that builds results, and "return results" (retriever.py 244-250)
ParResults(t) ==
    /\ call[t].pc = "results"
    /\ Ends(t, Returned(Results(heap, Take(call[t].scored, call[t].max_passages))))

NextPar ==
    \E t \in Callers :
        \/ \E query \in ParQueries, thesis_alignment \in ParAlignments :
               ParCall(t, query, RankTicker, thesis_alignment)
        \/ ParAlign(t)
        \/ ParSection(t)
        \/ ParIndex(t)
        \/ ParScore(t)
        \/ ParResults(t)

\* MaxCalls calls of retrieve on a fixed store, their statements interleaved in any order
SpecPar == InitPar /\ [][NextPar]_vars

\* ------------------------------------------------------------------ the chunker alone

\* the fields of one field-group of a record, as object literals and as parsed
GroupFields == {
    \* {}
    EmptyDict,
    \* {company:'Acme Corp', sector:'Industrials'}
    PDict(<<<<"c","o","m","p","a","n","y">>, <<"s","e","c","t","o","r">>>>, <<PStr(<<"A","c","m","e"," ","C","o","r","p">>), PStr(<<"I","n","d","u","s","t","r","i","a","l","s">>)>>),
    \* {heroDescription:'<b>Big</b> miner'}
    PDict(<<<<"h","e","r","o","D","e","s","c","r","i","p","t","i","o","n">>>>, <<PStr(<<"<","b",">","B","i","g","<","/","b",">"," ","m","i","n","e","r">>)>>),
    \* {heroDescription:'<br>'}
    PDict(<<<<"h","e","r","o","D","e","s","c","r","i","p","t","i","o","n">>>>, <<PStr(<<"<","b","r",">">>)>>),
    \* {heroCompanyDescription:'  '}
    PDict(<<<<"h","e","r","o","C","o","m","p","a","n","y","D","e","s","c","r","i","p","t","i","o","n">>>>, <<PStr(<<" "," ">>)>>),
    \* {identity:{overview:'Gold', rows:[[['Cap', '1B'], ['PE']]]}}
    PDict(<<<<"i","d","e","n","t","i","t","y">>>>, <<PDict(<<<<"o","v","e","r","v","i","e","w">>, <<"r","o","w","s">>>>, <<PStr(<<"G","o","l","d">>),
    PList(<<PList(<<PList(<<PStr(<<"C","a","p">>), PStr(<<"1","B">>)>>), PList(<<PStr(<<"P","E">>)>>)>>)>>)>>)>>),
    \* {heroMetrics:[{label:'PE', value:'12'}]}
    PDict(<<<<"h","e","r","o","M","e","t","r","i","c","s">>>>, <<PList(<<PDict(<<<<"l","a","b","e","l">>, <<"v","a","l","u","e">>>>, <<PStr(<<"P","E">>),
    PStr(<<"1","2">>)>>)>>)>>),
    \* {heroMetrics:[]}
    PDict(<<<<"h","e","r","o","M","e","t","r","i","c","s">>>>, <<PList(<<>>)>>),
    \* {skew:{direction:'downside', rationale:'bear risk'}}
    PDict(<<<<"s","k","e","w">>>>, <<PDict(<<<<"d","i","r","e","c","t","i","o","n">>, <<"r","a","t","i","o","n","a","l","e">>>>, <<PStr(<<"d","o","w","n","s","i","d","e">>),
    PStr(<<"b","e","a","r"," ","r","i","s","k">>)>>)>>),
    \* {skew:{}}
    PDict(<<<<"s","k","e","w">>>>, <<EmptyDict>>),
    \* {verdict:{text:'Hold', scores:[{label:'Q', score:35, dirText:'up'}]}}
    PDict(<<<<"v","e","r","d","i","c","t">>>>, <<PDict(<<<<"t","e","x","t">>, <<"s","c","o","r","e","s">>>>, <<PStr(<<"H","o","l","d">>), PList(<<PDict(<<<<"l","a","b","e","l">>,
    <<"s","c","o","r","e">>, <<"d","i","r","T","e","x","t">>>>, <<PStr(<<"Q">>), PInt(35), PStr(<<"u","p">>)>>)>>)>>)>>),
    \* {hypotheses:[{tier:'t1', direction:'upside', title:'risk'}]}
    PDict(<<<<"h","y","p","o","t","h","e","s","e","s">>>>, <<PList(<<PDict(<<<<"t","i","e","r">>, <<"d","i","r","e","c","t","i","o","n">>, <<"t","i","t","l","e">>>>, <<PStr(<<"t","1">>),
    PStr(<<"u","p","s","i","d","e">>), PStr(<<"r","i","s","k">>)>>)>>)>>),
    \* {hypotheses:[{tier:'t2', direction:'downside', requires:['a'], supporting:['b', 'c']},
    \*   {tier:'t1', direction:'upside', contradicting:['d']}]}
    PDict(<<<<"h","y","p","o","t","h","e","s","e","s">>>>, <<PList(<<PDict(<<<<"t","i","e","r">>, <<"d","i","r","e","c","t","i","o","n">>, <<"r","e","q","u","i","r","e","s">>, <<"s","u","p","p","o","r","t","i","n","g">>>>,
    <<PStr(<<"t","2">>), PStr(<<"d","o","w","n","s","i","d","e">>), PList(<<PStr(<<"a">>)>>), PList(<<PStr(<<"b">>), PStr(<<"c">>)>>)>>),
    PDict(<<<<"t","i","e","r">>, <<"d","i","r","e","c","t","i","o","n">>, <<"c","o","n","t","r","a","d","i","c","t","i","n","g">>>>, <<PStr(<<"t","1">>), PStr(<<"u","p","s","i","d","e">>),
    PList(<<PStr(<<"d">>)>>)>>)>>)>>),
    \* {hypotheses:[{tier:null, direction:'upside', title:'risk'}]}
    PDict(<<<<"h","y","p","o","t","h","e","s","e","s">>>>, <<PList(<<PDict(<<<<"t","i","e","r">>, <<"d","i","r","e","c","t","i","o","n">>, <<"t","i","t","l","e">>>>, <<PNone,
    PStr(<<"u","p","s","i","d","e">>), PStr(<<"r","i","s","k">>)>>)>>)>>),
    \* {hypotheses:[{direction:'neutral'}]}
    PDict(<<<<"h","y","p","o","t","h","e","s","e","s">>>>, <<PList(<<PDict(<<<<"d","i","r","e","c","t","i","o","n">>>>, <<PStr(<<"n","e","u","t","r","a","l">>)>>)>>)>>),
    \* {narrative:{theNarrative:'n', priceImplication:{label:'l', content:'c'},
    \*   evidenceCheck:'e', narrativeStability:'s'}}
    PDict(<<<<"n","a","r","r","a","t","i","v","e">>>>, <<PDict(<<<<"t","h","e","N","a","r","r","a","t","i","v","e">>, <<"p","r","i","c","e","I","m","p","l","i","c","a","t","i","o","n">>, <<"e","v","i","d","e","n","c","e","C","h","e","c","k">>,
    <<"n","a","r","r","a","t","i","v","e","S","t","a","b","i","l","i","t","y">>>>, <<PStr(<<"n">>), PDict(<<<<"l","a","b","e","l">>, <<"c","o","n","t","e","n","t">>>>, <<PStr(<<"l">>),
    PStr(<<"c">>)>>), PStr(<<"e">>), PStr(<<"s">>)>>)>>),
    \* {narrative:{theNarrative:'', priceImplication:{label:'l'}}}
    PDict(<<<<"n","a","r","r","a","t","i","v","e">>>>, <<PDict(<<<<"t","h","e","N","a","r","r","a","t","i","v","e">>, <<"p","r","i","c","e","I","m","p","l","i","c","a","t","i","o","n">>>>, <<PStr(<<>>),
    PDict(<<<<"l","a","b","e","l">>>>, <<PStr(<<"l">>)>>)>>)>>),
    \* {evidence:{cards:[{title:'T', number:1, finding:'f', tags:[{text:'x'}],
    \*   table:{headers:['a', 'b'], rows:[['1', '2']]}}, {title:'U', number:2, tension:'t',
    \*   source:'s'}], alignmentSummary:{summary:{t1:'2'}}}}
    PDict(<<<<"e","v","i","d","e","n","c","e">>>>, <<PDict(<<<<"c","a","r","d","s">>, <<"a","l","i","g","n","m","e","n","t","S","u","m","m","a","r","y">>>>, <<PList(<<PDict(<<<<"t","i","t","l","e">>,
    <<"n","u","m","b","e","r">>, <<"f","i","n","d","i","n","g">>, <<"t","a","g","s">>, <<"t","a","b","l","e">>>>, <<PStr(<<"T">>), PInt(1), PStr(<<"f">>),
    PList(<<PDict(<<<<"t","e","x","t">>>>, <<PStr(<<"x">>)>>)>>), PDict(<<<<"h","e","a","d","e","r","s">>, <<"r","o","w","s">>>>,
    <<PList(<<PStr(<<"a">>), PStr(<<"b">>)>>), PList(<<PList(<<PStr(<<"1">>), PStr(<<"2">>)>>)>>)>>)>>),
    PDict(<<<<"t","i","t","l","e">>, <<"n","u","m","b","e","r">>, <<"t","e","n","s","i","o","n">>, <<"s","o","u","r","c","e">>>>, <<PStr(<<"U">>), PInt(2), PStr(<<"t">>),
    PStr(<<"s">>)>>)>>), PDict(<<<<"s","u","m","m","a","r","y">>>>, <<PDict(<<<<"t","1">>>>, <<PStr(<<"2">>)>>)>>)>>)>>),
    \* {discriminators:{rows:[{diagnosticity:'HIGH', evidence:'e'}, {evidence:'f'}],
    \*   nonDiscriminating:'n'}}
    PDict(<<<<"d","i","s","c","r","i","m","i","n","a","t","o","r","s">>>>, <<PDict(<<<<"r","o","w","s">>, <<"n","o","n","D","i","s","c","r","i","m","i","n","a","t","i","n","g">>>>,
    <<PList(<<PDict(<<<<"d","i","a","g","n","o","s","t","i","c","i","t","y">>, <<"e","v","i","d","e","n","c","e">>>>, <<PStr(<<"H","I","G","H">>), PStr(<<"e">>)>>),
    PDict(<<<<"e","v","i","d","e","n","c","e">>>>, <<PStr(<<"f">>)>>)>>), PStr(<<"n">>)>>)>>),
    \* {tripwires:{cards:[{name:'Q3', date:'d', conditions:[{if:'a', then:'b'}]}, {name:'Q4'}]}}
    PDict(<<<<"t","r","i","p","w","i","r","e","s">>>>, <<PDict(<<<<"c","a","r","d","s">>>>, <<PList(<<PDict(<<<<"n","a","m","e">>, <<"d","a","t","e">>,
    <<"c","o","n","d","i","t","i","o","n","s">>>>, <<PStr(<<"Q","3">>), PStr(<<"d">>), PList(<<PDict(<<<<"i","f">>, <<"t","h","e","n">>>>, <<PStr(<<"a">>),
    PStr(<<"b">>)>>)>>)>>), PDict(<<<<"n","a","m","e">>>>, <<PStr(<<"Q","4">>)>>)>>)>>)>>),
    \* {tripwires:{cards:[{name:null}]}}
    PDict(<<<<"t","r","i","p","w","i","r","e","s">>>>, <<PDict(<<<<"c","a","r","d","s">>>>, <<PList(<<PDict(<<<<"n","a","m","e">>>>, <<PNone>>)>>)>>)>>),
    \* {tripwires:{cards:[{date:'d'}]}}
    PDict(<<<<"t","r","i","p","w","i","r","e","s">>>>, <<PDict(<<<<"c","a","r","d","s">>>>, <<PList(<<PDict(<<<<"d","a","t","e">>>>,
    <<PStr(<<"d">>)>>)>>)>>)>>),
    \* {gaps:{couldntAssess:['g1', 'g2']}}
    PDict(<<<<"g","a","p","s">>>>, <<PDict(<<<<"c","o","u","l","d","n","t","A","s","s","e","s","s">>>>, <<PList(<<PStr(<<"g","1">>), PStr(<<"g","2">>)>>)>>)>>),
    \* {gaps:{couldntAssess:[]}}
    PDict(<<<<"g","a","p","s">>>>, <<PDict(<<<<"c","o","u","l","d","n","t","A","s","s","e","s","s">>>>, <<PList(<<>>)>>)>>),
    \* {identity:null}
    PDict(<<<<"i","d","e","n","t","i","t","y">>>>, <<PNone>>),
    \* {identity:{}}
    PDict(<<<<"i","d","e","n","t","i","t","y">>>>, <<EmptyDict>>),
    \* {hypotheses:null}
    PDict(<<<<"h","y","p","o","t","h","e","s","e","s">>>>, <<PNone>>),
    \* {hypotheses:[]}
    PDict(<<<<"h","y","p","o","t","h","e","s","e","s">>>>, <<PList(<<>>)>>),
    \* {evidence:{cards:[]}}
    PDict(<<<<"e","v","i","d","e","n","c","e">>>>, <<PDict(<<<<"c","a","r","d","s">>>>, <<PList(<<>>)>>)>>),
    \* {narrative:{}}
    PDict(<<<<"n","a","r","r","a","t","i","v","e">>>>, <<EmptyDict>>),
    \* {discriminators:{}}
    PDict(<<<<"d","i","s","c","r","i","m","i","n","a","t","o","r","s">>>>, <<EmptyDict>>),
    \* {tripwires:{}}
    PDict(<<<<"t","r","i","p","w","i","r","e","s">>>>, <<EmptyDict>>),
    \* {technicalAnalysis:null}
    PDict(<<<<"t","e","c","h","n","i","c","a","l","A","n","a","l","y","s","i","s">>>>, <<PNone>>),
    \* {technicalAnalysis:{date:'d', regime:'r', price:{currency:'A$', current:31},
    \*   movingAverages:{ma50:{value:30}, crossover:{type:'golden'}}, volatility:{annualised:22}}}
    PDict(<<<<"t","e","c","h","n","i","c","a","l","A","n","a","l","y","s","i","s">>>>, <<PDict(<<<<"d","a","t","e">>, <<"r","e","g","i","m","e">>, <<"p","r","i","c","e">>, <<"m","o","v","i","n","g","A","v","e","r","a","g","e","s">>,
    <<"v","o","l","a","t","i","l","i","t","y">>>>, <<PStr(<<"d">>), PStr(<<"r">>), PDict(<<<<"c","u","r","r","e","n","c","y">>, <<"c","u","r","r","e","n","t">>>>, <<PStr(<<"A","$">>),
    PInt(31)>>), PDict(<<<<"m","a","5","0">>, <<"c","r","o","s","s","o","v","e","r">>>>, <<PDict(<<<<"v","a","l","u","e">>>>, <<PInt(30)>>),
    PDict(<<<<"t","y","p","e">>>>, <<PStr(<<"g","o","l","d","e","n">>)>>)>>), PDict(<<<<"a","n","n","u","a","l","i","s","e","d">>>>, <<PInt(22)>>)>>)>>) }

\* the reference record of the ticker: none, or one with two fields
ReferenceRecords == {
    \* null
    PNone,
    \* {roe:25, analystBuys:3}
    PDict(<<<<"r","o","e">>, <<"a","n","a","l","y","s","t","B","u","y","s">>>>, <<PInt(25), PInt(3)>>) }

\* the freshness record of the ticker: none, or one with two fields
FreshnessRecords == {
    \* null
    PNone,
    \* {status:'fresh', daysSinceReview:4}
    PDict(<<<<"s","t","a","t","u","s">>, <<"d","a","y","s","S","i","n","c","e","R","e","v","i","e","w">>>>, <<PStr(<<"f","r","e","s","h">>), PInt(4)>>) }

\* the two dicts have no key in common
Disjoint(a, b) == \A i \in 1..Len(a.ks) : \A j \in 1..Len(b.ks) : a.ks[i] # b.ks[j]

\* the normalized records chunked: the fields of one field-group, or of two
ChunkRecords ==
    GroupFields \cup {Fields(pair[1], pair[2]) :
                         pair \in {p \in GroupFields \X GroupFields : Disjoint(p[1], p[2])}}

ChunkQueries == {<<"r","i","s","k">>, <<"t","h","e">>}

ChunkAlignments == {PNone, PStr(<<"t","1">>), PStr(<<"b","u","l","l">>)}

InitChunk ==
    /\ NoGlobals
    /\ \E data \in ChunkRecords, ref \in ReferenceRecords, fresh \in FreshnessRecords :
           call = [op |-> "chunk", ticker |-> RankTicker.s, data |-> data, ref |-> ref,
                   fresh |-> fresh]
    /\ ret = [kind |-> "none"]

\* the end of an iteration of the loop of ingest that leaves done: the list _chunk_stock
\* returned, as the Passage values it holds
ChunkEnds(done) ==
    /\ heap' = done.g.heap
    /\ heap0' = done.g.heap
    /\ _store' = done.g.store
    /\ _all_passages' = done.g.all
    /\ ret' = IF done.raised THEN Raised ELSE Returned(Deref(done.g.heap, done.g.all))

\* passages = _chunk_stock(ticker, data, ref, fresh), stored as ingest stores them
\* (ingest.py 650-652)
Chunk ==
    /\ ret.kind = "none"
    /\ call.op = "chunk"
    /\ ChunkEnds(IngestItem(G, call.ticker, call.data, call.ref, call.fresh))
    /\ UNCHANGED <<ing, call>>

\* retrieve(query, ticker, thesis_alignment) on the passages chunked
ChunkRetrieve(query, thesis_alignment) ==
    /\ call.op = "chunk"
    /\ ret.kind = "returned"
    /\ Retrieve(query, PStr(call.ticker), thesis_alignment, MAX_PASSAGES)

NextChunk ==
    \/ Chunk
    \/ \E query \in ChunkQueries, thesis_alignment \in ChunkAlignments :
           ChunkRetrieve(query, thesis_alignment)

\* _chunk_stock on one record, then one call of retrieve on its passages
SpecChunk == InitChunk /\ [][NextChunk]_vars

\* ------------------------------------------------------------------ the normalizer alone

\* the longest body of a string literal, in atoms
MaxAtoms == 3

\* what the body of a single-quoted literal is made of: a letter, an escaped single quote,
\* an escaped double quote, a double quote
SingleAtoms == {<<"a">>, <<"\\","'">>, <<"\\","\"">>, <<"\"">>}

\* what the body of a double-quoted literal is made of: a letter, an escaped double quote,
\* a single quote
DoubleAtoms == {<<"a">>, <<"\\","\"">>, <<"'">>}

Bodies(atoms) == UNION {[1..n -> atoms] : n \in 0..MaxAtoms}

\* the object literal {k: <quote><body><quote>}
Literal(quote, body) == <<"{","k",":"," ">> \o <<quote>> \o Join(<<>>, body) \o <<quote>> \o <<"}">>

\* the literal of the round-trip property: {name: 'O\'Brien', note: "she said \"hi\""}
RoundTripLiteral == <<"{","n","a","m","e",":"," ","'","O","\\","'","B","r","i","e","n","'",","," ","n","o","t","e",":"," ","\"","s","h","e"," ","s","a","i","d"," ","\\","\"","h","i","\\","\"","\"","}">>

InitNormalize ==
    /\ NoGlobals
    /\ \/ \E body \in Bodies(SingleAtoms) :
              call = [op |-> "js_to_dict", js_str |-> Literal("'", body), quote |-> "'",
                      body |-> body]
       \/ \E body \in Bodies(DoubleAtoms) :
              call = [op |-> "js_to_dict", js_str |-> Literal("\"", body), quote |-> "\"",
                      body |-> body]
       \/ call = [op |-> "js_to_dict", js_str |-> RoundTripLiteral, quote |-> "", body |-> <<>>]
    /\ ret = [kind |-> "none"]

\* _js_to_dict(js_str): the value returned, and the text s handed to json.loads
JsToDict ==
    /\ ret.kind = "none"
    /\ call.op = "js_to_dict"
    /\ ret' = [kind |-> "returned", value |-> _js_to_dict(call.js_str),
               s |-> Normalize(call.js_str)]
    /\ UNCHANGED <<heap, _store, _all_passages, ing, call, heap0>>

NextNormalize == JsToDict

SpecNormalize == InitNormalize /\ [][NextNormalize]_vars

\* ------------------------------------------------------------------ the scorer alone

\* the most candidates of an index
MaxDocs == 2

\* the most tokens of a candidate's content
MaxDocLen == 2

\* the tokens the contents are made of
Vocabulary == {<<"r","i","s","k">>, <<"a","c","m","e">>}

DocTokens == UNION {[1..n -> Vocabulary] : n \in 1..MaxDocLen}

Corpora == UNION {[1..n -> DocTokens] : n \in 1..MaxDocs}

\* the tickers of the candidates, in document order
ScoreTickers == <<<<"A","A">>, <<"A","B">>, <<"A","C">>>>

ScoreQueries == {<<"r","i","s","k">>, <<"a","c","m","e"," ","r","i","s","k">>}

\* the record whose overview passage has the tokens as its content
OverviewOf(tokens) == PDict(<<<<"h","e","r","o","D","e","s","c","r","i","p","t","i","o","n">>>>, <<PStr(Join(<<" ">>, tokens))>>)

\* the globals after the ingest of a document whose n-th ticker has the overview docs[n]
RECURSIVE CorpusOf(_, _)
CorpusOf(docs, n) ==
    IF n = 0 THEN EmptyGlobals
    ELSE IngestItem(CorpusOf(docs, n - 1), ScoreTickers[n], OverviewOf(docs[n]), PNone, PNone).g

InitScore ==
    /\ \E docs \in Corpora :
           /\ heap = CorpusOf(docs, Len(docs)).heap
           /\ heap0 = CorpusOf(docs, Len(docs)).heap
           /\ _store = CorpusOf(docs, Len(docs)).store
           /\ _all_passages = CorpusOf(docs, Len(docs)).all
    /\ ing = Idle
    /\ call = [op |-> "none"]
    /\ ret = [kind |-> "none"]

NextScore == \E query \in ScoreQueries : BM25Score(query, PNone)

\* one call of BM25.score on the whole corpus, every candidate an overview passage
SpecScore == InitScore /\ [][NextScore]_vars

\* ------------------------------------------------------------------ properties

\* the Passage values of the per-ticker lists and of the flattened list of globals g
StoreView(g) ==
    [tickers |-> g.store.ks,
     lists |-> [i \in 1..Len(g.store.vs) |-> Deref(g.heap, g.store.vs[i].xs)],
     all |-> Deref(g.heap, g.all)]

\* the stored objects as the last ingest left them
G0 == Globals(heap0, _store, _all_passages)

\* C1: no sequence of retrieve calls changes a stored Passage: the per-ticker lists and
\* the flattened list hold, field by field, the passages they held right after ingest
C1_StoredPassagesUnchanged == StoreView(G) = StoreView(G0)

\* a retrieve call has returned a passage with a boosted weight, while the stored
\* passage it was copied from keeps its own
C1_BoostedCopyReturned ==
    /\ call.op = "retrieve"
    /\ ret.kind = "returned"
    /\ \E i \in 1..Len(ret.value) : \E j \in 1..Len(_all_passages) :
           /\ ret.value[i].content = heap[_all_passages[j]].content
           /\ ret.value[i].section = heap[_all_passages[j]].section
           /\ ret.value[i].ticker = heap[_all_passages[j]].ticker
           /\ ret.value[i].weight > heap[_all_passages[j]].weight

\* C2: retrieve returns at most max_passages entries, their relevance scores
\* non-increasing from the first to the last
C2_BoundedAndSorted ==
    (call.op = "retrieve" /\ ret.kind = "returned") =>
        /\ Len(ret.value) <= call.max_passages
        /\ \A i \in 1..Len(ret.value) : \A j \in i..Len(ret.value) :
               ret.value[i].relevance_score >= ret.value[j].relevance_score

\* a retrieve call with more candidates than max_passages has returned max_passages
\* entries, the first scoring more than the last
C2_TruncatedRanking ==
    /\ call.op = "retrieve"
    /\ ret.kind = "returned"
    /\ call.max_passages >= 2
    /\ Len(get_passages(G, call.ticker)) > call.max_passages
    /\ Len(ret.value) = call.max_passages
    /\ ret.value[1].relevance_score > ret.value[call.max_passages].relevance_score
    /\ ret.value[call.max_passages].relevance_score > 0

\* what the reader call c returns on the globals g
Answer(c, g) ==
    CASE c.op = "get_passages" -> Returned(Deref(g.heap, get_passages(g, c.ticker)))
      [] c.op = "get_tickers" -> Returned(get_tickers(g))
      [] c.op = "get_passage_count" -> Returned(get_passage_count(g))
      [] c.op = "retrieve" ->
             IF retrieve(g, c.query, c.ticker, c.thesis_alignment, c.max_passages).raised
             THEN Raised
             ELSE Returned(retrieve(g, c.query, c.ticker, c.thesis_alignment,
                                    c.max_passages).result)

\* C3: a reader that runs while ingest is in progress gets what it would get on the
\* complete previous corpus or on the complete new corpus
C3_ReadersSeeWholeCorpus ==
    (call.op \in {"get_passages", "get_tickers", "get_passage_count", "retrieve"}
        /\ call.frame.pc # "idle") =>
        ret \in {Answer(call, call.frame.before), Answer(call, call.frame.after)}

\* C4: after ingest has returned, running it again on the same document leaves the same
\* tickers and, per ticker, the same passages in the same order, and a flattened list
\* that holds each passage once
C4_IngestIdempotent ==
    (call.op = "ingest" /\ ret.kind = "returned") =>
        /\ ~ingest(G, call.file).raised
        /\ StoreView(ingest(G, call.file).g) = StoreView(G)

\* ingest has returned with two tickers stored and passages in the flattened list, and a
\* second run on its document leaves as many
C4_CorpusIngested ==
    /\ call.op = "ingest"
    /\ ret.kind = "returned"
    /\ Len(_store.ks) >= 2
    /\ Len(_all_passages) >= 3
    /\ Len(ingest(G, call.file).g.all) = Len(_all_passages)

\* the ticker is given and, upper-cased, names no passage: the store has no such key,
\* or an empty list under it
NamesNoPassage(ticker) ==
    /\ Truthy(ticker)
    /\ \A i \in 1..Len(_store.ks) :
           _store.ks[i] = Upper(ticker.s) => _store.vs[i].xs = <<>>

\* C5 as amended: retrieve returns the empty list, and raises nothing, for a given
\* ticker that (upper-cased) is unknown to the store or has zero passages; with the
\* ticker empty or absent it ranks the flattened corpus, so it returns the empty list
\* when the corpus is empty and, when it returns on a corpus that is not, a list that
\* is not empty
C5_EmptyForUnknownTicker ==
    call.op = "retrieve" =>
        /\ NamesNoPassage(call.ticker) => ret = Returned(<<>>)
        /\ (~Truthy(call.ticker) /\ _all_passages = <<>>) => ret = Returned(<<>>)
        /\ (~Truthy(call.ticker) /\ _all_passages # <<>> /\ ret.kind = "returned") =>
               ret.value # <<>>

\* C5 as stated: the empty list, and no error, for a ticker that is unknown, empty or
\* absent, or that has zero passages
C5_EmptyForAbsentTicker ==
    (call.op = "retrieve" /\ (~Truthy(call.ticker) \/ NamesNoPassage(call.ticker))) =>
        ret = Returned(<<>>)

\* retrieve has returned the empty list for an unknown ticker on a corpus with passages
C5_UnknownTickerAsked ==
    /\ call.op = "retrieve"
    /\ NamesNoPassage(call.ticker)
    /\ _all_passages # <<>>
    /\ ret = Returned(<<>>)

RECURSIVE Flatten(_)
\* the concatenation of the lists in order
Flatten(lists) == IF lists = <<>> THEN <<>> ELSE Head(lists).xs \o Flatten(Tail(lists))

RECURSIVE SumCounts(_)
\* the sum of the int values in order
SumCounts(counts) == IF counts = <<>> THEN 0 ELSE Head(counts).n + SumCounts(Tail(counts))

\* the list get_passages is to return for the ticker: the list stored for it, the
\* flattened list for no ticker, the empty list for an unknown one
Listed(ticker) ==
    IF ticker = PNone \/ ticker = PStr(<<>>) THEN _all_passages
    ELSE IF \E i \in 1..Len(_store.ks) : _store.ks[i] = Upper(ticker.s)
    THEN _store.vs[CHOOSE i \in 1..Len(_store.ks) : _store.ks[i] = Upper(ticker.s)].xs
    ELSE <<>>

\* the passages the chunker emits for each ticker of the document, in its order
Emitted(html) ==
    [i \in 1..Len(_extract_js_objects(html).ks) |->
        _chunk_stock(_extract_js_objects(html).ks[i], _extract_js_objects(html).vs[i],
                     Get(_extract_reference_data(html), _extract_js_objects(html).ks[i]),
                     Get(_extract_freshness_data(html), _extract_js_objects(html).ks[i]))]

\* C6: the flattened list is the concatenation of the per-ticker lists, each in the
\* order the chunker emitted it, its length the sum of the get_passage_count values;
\* get_passages returns the list stored for a ticker, the flattened list for no
\* ticker, and the empty list for an unknown ticker, without error
C6_FlattenedIsConcatenation ==
    /\ _all_passages = Flatten(_store.vs)
    /\ Len(_all_passages) = SumCounts(get_passage_count(G).vs)
    /\ (call.op = "ingest" /\ ret.kind = "returned") =>
           StoreView(G).lists = Emitted(call.file.text)
    /\ call.op = "get_passages" => ret = Returned(Deref(heap, Listed(call.ticker)))

\* get_passages with no ticker has returned the passages of two tickers
C6_WholeCorpusListed ==
    /\ call.op = "get_passages"
    /\ ~Truthy(call.ticker)
    /\ Len(_store.ks) >= 2
    /\ \A i \in 1..Len(_store.vs) : _store.vs[i].xs # <<>>
    /\ Len(ret.value) = Len(_all_passages)

\* the ticker entry matched at m is malformed: its block does not balance, or its
\* literal fails normalization
Malformed(html, m) ==
    \/ _extract_balanced_braces(html, m.end - 1) = <<>>
    \/ ~JsonLoads(Normalize(_extract_balanced_braces(html, m.end - 1))).ok

\* the tickers of the entries of the document that are not malformed
WellFormedTickers(html) ==
    {FindStocks(html, 0)[n].ticker :
        n \in {m \in 1..Len(FindStocks(html, 0)) : ~Malformed(html, FindStocks(html, 0)[m])}}

\* C7: ingest of a readable document returns, and the tickers it stores are those of
\* the discovered entries that are not malformed
C7_OnlyMalformedOmitted ==
    (call.op = "ingest" /\ call.file.readable) =>
        /\ ret.kind = "returned"
        /\ Range(_store.ks) = WellFormedTickers(call.file.text)

RECURSIVE Escaped(_, _)
\* the i-th character of s follows a backslash that escapes it
Escaped(s, i) == i > 1 /\ s[i - 1] = "\\" /\ ~Escaped(s, i - 1)

\* the number of unescaped occurrences of the character c in s
Unescaped(s, c) == Cardinality({i \in 1..Len(s) : s[i] = c /\ ~Escaped(s, i)})

RECURSIVE InLiteral(_, _, _, _)
\* the positions of s from i on that lie in a quoted string literal or open or close
\* one, quote being the quote of the literal open at i ("" for none); in a literal a
\* backslash takes the next character with it
InLiteral(s, i, quote, acc) ==
    IF i > Len(s) THEN acc
    ELSE IF quote = ""
    THEN IF s[i] \in {"'", "\""} THEN InLiteral(s, i + 1, s[i], acc \cup {i})
         ELSE InLiteral(s, i + 1, "", acc)
    ELSE IF s[i] = "\\" /\ i < Len(s) THEN InLiteral(s, i + 2, quote, acc \cup {i, i + 1})
    ELSE IF s[i] = quote THEN InLiteral(s, i + 1, "", acc \cup {i})
    ELSE InLiteral(s, i + 1, quote, acc \cup {i})

\* the number of occurrences of c in s outside the quoted string literals
OutsideLiterals(s, c) ==
    Cardinality({i \in 1..Len(s) : s[i] = c} \ InLiteral(s, 1, "", {}))

\* C8 as amended: a block the extractor returns starts with {, ends with }, and holds
\* as many { as } outside its quoted string literals
C8_BalancedOutsideLiterals ==
    (call.op = "extract" /\ ret.kind = "returned" /\ ret.value # <<>>) =>
        /\ Head(ret.value) = "{"
        /\ ret.value[Len(ret.value)] = "}"
        /\ OutsideLiterals(ret.value, "{") = OutsideLiterals(ret.value, "}")

\* C8 as stated: a block the extractor returns starts with {, ends with }, and holds
\* as many unescaped { as unescaped }
C8_BalancedUnescaped ==
    (call.op = "extract" /\ ret.kind = "returned" /\ ret.value # <<>>) =>
        /\ Head(ret.value) = "{"
        /\ ret.value[Len(ret.value)] = "}"
        /\ Unescaped(ret.value, "{") = Unescaped(ret.value, "}")

\* the extractor has returned a block with a brace inside a string literal
C8_BraceInLiteral ==
    /\ call.op = "extract"
    /\ ret.kind = "returned"
    /\ ret.value # <<>>
    /\ \E i \in InLiteral(ret.value, 1, "", {}) : ret.value[i] \in {"{", "}"}

\* the weight the alignment token (a text) gives a passage, direction being the
\* direction the token resolves to (<<>> for none): 1.5 times its own for a tier token
\* it is tagged with, 1.3 times its own for a direction it is tagged with, else its own
AlignedWeight(p, token, direction) ==
    IF token \in {<<"t","1">>, <<"t","2">>, <<"t","3">>, <<"t","4">>}
    THEN IF HasTag(p, token) THEN (p.weight * 15) \div 10 ELSE p.weight
    ELSE IF direction # <<>> /\ HasTag(p, direction)
    THEN (p.weight * 13) \div 10
    ELSE p.weight

\* the direction of a direction token as the code reads it, <<>> for any other token
Resolved(token) ==
    CASE token \in {<<"b","u","l","l","i","s","h">>, <<"b","u","l","l">>, <<"u","p","s","i","d","e">>} -> <<"u","p","s","i","d","e">>
      [] token \in {<<"b","e","a","r","i","s","h">>, <<"b","e","a","r">>, <<"d","o","w","n","s","i","d","e">>} -> <<"d","o","w","n","s","i","d","e">>
      [] token = <<"n","e","u","t","r","a","l">> -> <<"n","e","u","t","r","a","l">>
      [] OTHER -> <<>>

\* the direction of a direction token as stated, <<>> for any other token
ResolvedAsStated(token) ==
    CASE token \in {<<"b","u","l","l","i","s","h">>, <<"b","u","l","l">>} -> <<"u","p","s","i","d","e">>
      [] token \in {<<"b","e","a","r","i","s","h">>, <<"b","e","a","r">>} -> <<"d","o","w","n","s","i","d","e">>
      [] token = <<"n","e","u","t","r","a","l">> -> <<"n","e","u","t","r","a","l">>
      [] OTHER -> <<>>

\* the text of an alignment, none for no alignment
TokenOf(alignment) == IF alignment = PNone THEN <<>> ELSE alignment.s

\* C9 as amended: the alignment pass returns the passages in their order, all fields but
\* the weight unchanged; the alignment is read lower-cased and trimmed; the weight is
\* 1.5 times the base for a tier token t1..t4 the passage is tagged with, 1.3 times the
\* base for a direction token (bullish, bull or upside for upside; bearish, bear or
\* downside for downside; neutral) whose direction the passage is tagged with, and the
\* base in every other case
C9_AlignmentWeights ==
    (call.op = "align" /\ ret.kind = "returned") =>
        /\ Len(ret.value) = Len(call.passages)
        /\ \A i \in 1..Len(call.passages) :
               ret.value[i] =
                   [heap0[call.passages[i]] EXCEPT
                       !.weight = AlignedWeight(heap0[call.passages[i]],
                                                Strip(Lower(TokenOf(call.alignment))),
                                                Resolved(Strip(Lower(TokenOf(call.alignment)))))]

\* C9 as stated: the same, the alignment read as given and the direction tokens being
\* bullish, bull, bearish, bear and neutral
C9_AlignmentWeightsAsStated ==
    (call.op = "align" /\ ret.kind = "returned") =>
        /\ Len(ret.value) = Len(call.passages)
        /\ \A i \in 1..Len(call.passages) :
               ret.value[i] =
                   [heap0[call.passages[i]] EXCEPT
                       !.weight = AlignedWeight(heap0[call.passages[i]],
                                                TokenOf(call.alignment),
                                                ResolvedAsStated(TokenOf(call.alignment)))]

\* the pass has run for the alignment bull on a passage tagged upside and one that is
\* not, and for a tier on a passage tagged with it
C9_DirectionBoosted ==
    /\ call.op = "align"
    /\ ret.kind = "returned"
    /\ call.alignment = PStr(<<"b","u","l","l">>)
    /\ Len(ret.value) = 2
    /\ ret.value[1].weight = (heap0[1].weight * 13) \div 10
    /\ HasTag(heap0[1], <<"u","p","s","i","d","e">>)
    /\ ret.value[2].weight = heap0[2].weight

\* the sections of the keywords of the dictionary that occur in the lower-cased query
TargetSections(query) ==
    UNION {_SECTION_HINTS[n][2] :
              n \in {m \in 1..Len(_SECTION_HINTS) :
                        \E at \in 0..Len(query) :
                            StartsAt(Lower(query), at, _SECTION_HINTS[m][1])}}

\* C10: the section pass gives a passage 1.4 times its weight, once, exactly when its
\* section is a target section of some keyword that occurs in the query, whatever the
\* case; every other passage, and every other field, is unchanged
C10_SectionWeights ==
    (call.op = "section_boost" /\ ret.kind = "returned") =>
        /\ Len(ret.value) = Len(call.passages)
        /\ \A i \in 1..Len(call.passages) :
               ret.value[i] =
                   [heap0[call.passages[i]] EXCEPT
                       !.weight = IF heap0[call.passages[i]].section
                                        \in TargetSections(call.query)
                                  THEN (@ * 14) \div 10 ELSE @]

\* the pass has run for a query with two keywords, one in upper case, that target the section
\* of the first passage, boosted once, and not that of the second
C10_BoostedOnce ==
    /\ call.op = "section_boost"
    /\ ret.kind = "returned"
    /\ call.query = <<"T","h","e","s","i","s"," ","R","I","S","K">>
    /\ Len(ret.value) = 2
    /\ heap0[1].section = <<"h","y","p","o","t","h","e","s","i","s">>
    /\ ret.value[1].weight = (heap0[1].weight * 14) \div 10
    /\ heap0[2].section = <<"t","e","c","h","n","i","c","a","l">>
    /\ ret.value[2].weight = heap0[2].weight

\* the result x is a copy of the passage p, or p itself: every field but the weight
SamePassage(x, p) ==
    /\ x.ticker = p.ticker
    /\ x.section = p.section
    /\ x.subsection = p.subsection
    /\ x.content = p.content
    /\ x.tags = p.tags

\* the passage or result p is tagged with the tier the token names
TierMatch(p, token) == token \in {<<"t","1">>, <<"t","2">>, <<"t","3">>, <<"t","4">>} /\ HasTag(p, token)

\* the passage or result p is tagged with the direction the token stands for
DirectionMatch(p, token) ==
    /\ token \notin {<<"t","1">>, <<"t","2">>, <<"t","3">>, <<"t","4">>}
    /\ Resolved(token) # <<>>
    /\ HasTag(p, Resolved(token))

\* the alignment token of the call c as the alignment pass reads it
CallToken(c) == Strip(Lower(TokenOf(c.thesis_alignment)))

\* p gets both boosts in the call c
BothBoosts(p, c) ==
    /\ TierMatch(p, CallToken(c)) \/ DirectionMatch(p, CallToken(c))
    /\ p.section \in TargetSections(c.query)

\* p gets neither boost in the call c
NoBoost(p, c) ==
    /\ ~TierMatch(p, CallToken(c))
    /\ ~DirectionMatch(p, CallToken(c))
    /\ p.section \notin TargetSections(c.query)

\* the ranking of all the candidates of the call c when no boost is applied: BM25 over
\* the stored passages
Unboosted(c) ==
    RetrieveBoosted([heap |-> heap, passages |-> get_passages(G, c.ticker)], c.query,
                    Len(get_passages(G, c.ticker))).result

\* in the result r of the call c, every passage with both boosts that comes before the
\* j-th entry of r in the unboosted ranking u comes before it in r
KeepsRank(r, u, j, c) ==
    \A at \in 1..Len(u) :
        SamePassage(u[at], r[j]) =>
            \A before \in 1..(at - 1) :
                BothBoosts(u[before], c) =>
                    \E i \in 1..(j - 1) : SamePassage(r[i], u[before])

\* C11: in retrieve a passage that matches the alignment and lies in a section the query
\* targets has weight base * 1.5 * 1.4 for a tier match and base * 1.3 * 1.4 for a
\* direction match; and a passage with both boosts that ranks before a passage with
\* neither boost when no boost is applied ranks before it in the result
C11_BoostsCompound ==
    (call.op = "retrieve" /\ ret.kind = "returned") =>
        /\ \A j \in 1..Len(ret.value) : \A i \in 1..Len(_all_passages) :
               (/\ SamePassage(ret.value[j], heap[_all_passages[i]])
                /\ heap[_all_passages[i]].section \in TargetSections(call.query)) =>
                   /\ TierMatch(ret.value[j], CallToken(call)) =>
                          ret.value[j].weight * 100 = heap[_all_passages[i]].weight * 15 * 14
                   /\ DirectionMatch(ret.value[j], CallToken(call)) =>
                          ret.value[j].weight * 100 = heap[_all_passages[i]].weight * 13 * 14
        /\ \A j \in 1..Len(ret.value) :
               NoBoost(ret.value[j], call) => KeepsRank(ret.value, Unboosted(call), j, call)

\* retrieve has returned a passage with a tier match and a section match first, at 2.1
\* times its stored weight, and after it a passage with neither boost that ranks first
\* when no boost is applied
C11_BoostedOvertakes ==
    /\ call.op = "retrieve"
    /\ ret.kind = "returned"
    /\ Len(ret.value) = 2
    /\ TierMatch(ret.value[1], CallToken(call))
    /\ ret.value[1].section \in TargetSections(call.query)
    /\ ret.value[1].weight = 2730
    /\ NoBoost(ret.value[2], call)
    /\ SamePassage(Unboosted(call)[1], ret.value[2])
    /\ ret.value[2].relevance_score > 0

\* the place of the object id in the list ids, 0 when it is not in it
PlaceOf(ids, id) == IF \E i \in 1..Len(ids) : ids[i] = id
                    THEN CHOOSE i \in 1..Len(ids) : ids[i] = id ELSE 0

\* the list of (score, passage) pairs scored holds every candidate of ids exactly once,
\* by descending score, candidates of equal score in the order of ids
RankedStably(scored, ids) ==
    /\ Len(scored) = Len(ids)
    /\ \A i \in 1..Len(ids) : \E j \in 1..Len(scored) : scored[j][2] = ids[i]
    /\ \A i \in 1..Len(scored) : \A j \in (i + 1)..Len(scored) :
           \/ scored[i][1] > scored[j][1]
           \/ /\ scored[i][1] = scored[j][1]
              /\ PlaceOf(ids, scored[i][2]) < PlaceOf(ids, scored[j][2])

\* C12: BM25.score returns every candidate exactly once, paired with its score, by
\* descending score and in candidate order among equal scores; for a query without a
\* token it returns every candidate with score 0 in candidate order
C12_ScoresEveryCandidate ==
    (call.op = "score" /\ ret.kind # "none") =>
        /\ ret.kind = "returned"
        /\ RankedStably(ret.value, call.passages)
        /\ _tokenize(call.query) = <<>> =>
               ret.value = [i \in 1..Len(call.passages) |-> <<0, call.passages[i]>>]

\* the same of the calls of BM25.score that return
C12_ScoresWhenReturns ==
    (call.op = "score" /\ ret.kind = "returned") =>
        /\ RankedStably(ret.value, call.passages)
        /\ _tokenize(call.query) = <<>> =>
               ret.value = [i \in 1..Len(call.passages) |-> <<0, call.passages[i]>>]

\* the smaller of a and b
Min(a, b) == IF a < b THEN a ELSE b

\* retrieve has returned for a query without a token and a ticker with a passage
EmptyQueryAnswered ==
    /\ call.op = "retrieve"
    /\ ret.kind = "returned"
    /\ _tokenize(call.query) = <<>>
    /\ get_passages(G, call.ticker) # <<>>

\* C13 as stated: for a query without a token and a ticker with a passage, retrieve
\* returns min(max_passages, number of candidates) entries with relevance score 0,
\* by descending weight
C13_EmptyQueryByWeight ==
    EmptyQueryAnswered =>
        /\ Len(ret.value) = Min(call.max_passages, Len(get_passages(G, call.ticker)))
        /\ \A i \in 1..Len(ret.value) : ret.value[i].relevance_score = 0
        /\ \A i \in 1..Len(ret.value) : \A j \in i..Len(ret.value) :
               ret.value[i].weight >= ret.value[j].weight

\* C13 as amended: for a query without a token and a ticker with a passage, retrieve
\* returns the first min(max_passages, number of candidates) candidates in candidate
\* order, whatever their weights, each with relevance score 0
C13_EmptyQueryInOrder ==
    EmptyQueryAnswered =>
        /\ Len(ret.value) = Min(call.max_passages, Len(get_passages(G, call.ticker)))
        /\ \A i \in 1..Len(ret.value) :
               /\ ret.value[i].relevance_score = 0
               /\ SamePassage(ret.value[i], heap[get_passages(G, call.ticker)[i]])

\* retrieve has returned, for a query without a token, two of three candidates, the
\* first of a lower weight than the second
C13_LighterFirst ==
    /\ EmptyQueryAnswered
    /\ Len(get_passages(G, call.ticker)) > 2
    /\ Len(ret.value) = 2
    /\ ret.value[1].weight < ret.value[2].weight

\* what the call of the frame c returns when it runs alone on the store as ingest left it
Alone(c) ==
    IF retrieve(G0, c.query, c.ticker, c.thesis_alignment, c.max_passages).raised
    THEN Raised
    ELSE Returned(retrieve(G0, c.query, c.ticker, c.thesis_alignment, c.max_passages).result)

\* C14: on a fixed store, every call of retrieve that ends, however its statements were
\* interleaved with those of the other calls, has returned (or raised) what the same call
\* returns (or raises) when it runs alone, and the stored passages are as ingest left them
C14_CallsIndependent ==
    /\ SubSeq(heap, 1, Len(heap0)) = heap0
    /\ \A t \in Callers : call[t].pc = "done" => ret[t] = Alone(call[t])

\* two calls with the same arguments have ended with the same boosted result, the second
\* caller having made its copy for the alignment between the two copies of the first
C14_InterleavedCalls ==
    /\ call[1].pc = "done"
    /\ call[2].pc = "done"
    /\ call[1].query = <<"r","i","s","k">>
    /\ call[2].query = <<"r","i","s","k">>
    /\ call[1].thesis_alignment = PStr(<<"t","1">>)
    /\ call[2].thesis_alignment = PStr(<<"t","1">>)
    /\ ret[1].kind = "returned"
    /\ ret[1] = ret[2]
    /\ ret[1].value[1].weight = 2730
    /\ call[1].passages[3] = Len(heap0) + 3
    /\ call[2].passages[3] = Len(heap0) + 4

\* the prior weights 0.5, 0.6, ..., 1.3, in thousandths
PriorWeights == {Weight(tenths) : tenths \in 5..13}

\* C15: every stored passage has one of the prior weights 0.5 to 1.3, and every passage
\* retrieve returns has a weight above 0 that is the weight of the stored passage it was
\* made from times 1, 1.3 or 1.5 and times 1 or 1.4
C15_WeightsPositive ==
    /\ \A i \in 1..Len(heap) : heap[i].weight \in PriorWeights
    /\ (call.op = "retrieve" /\ ret.kind = "returned") =>
           \A j \in 1..Len(ret.value) :
               /\ ret.value[j].weight > 0
               /\ \E i \in 1..Len(_all_passages) :
                      /\ SamePassage(ret.value[j], heap[_all_passages[i]])
                      /\ \E alignment \in {10, 13, 15} : \E section \in {10, 14} :
                             ret.value[j].weight * 100
                                 = heap[_all_passages[i]].weight * alignment * section

\* the chunker has made a passage of weight 0.5 and one of weight 1.3, and retrieve has
\* returned the second at 1.5 * 1.4 times its weight and the first at its own
C15_LightestAndBoosted ==
    /\ call.op = "retrieve"
    /\ ret.kind = "returned"
    /\ \E i \in 1..Len(ret.value) : \E j \in 1..Len(ret.value) :
           /\ ret.value[i].section = <<"h","y","p","o","t","h","e","s","i","s">>
           /\ ret.value[i].weight = 2730
           /\ ret.value[j].section = <<"f","r","e","s","h","n","e","s","s">>
           /\ ret.value[j].weight = 500
    /\ \E i \in 1..Len(heap) : heap[i].weight = 1300

\* C16: every passage the chunker emits has non-empty content
C16_ContentNonEmpty ==
    (call.op = "chunk" /\ ret.kind = "returned") =>
        \A i \in 1..Len(ret.value) : ret.value[i].content # <<>>

\* C17: every passage the chunker emits has a string, possibly empty, as its subsection
C17_SubsectionIsString ==
    (call.op = "chunk" /\ ret.kind = "returned") =>
        \A i \in 1..Len(ret.value) : IsStr(ret.value[i].subsection)

\* the characters an atom of a string literal stands for
Decoded(atom) ==
    CASE atom = <<"\\","'">> -> <<"'">>
      [] atom = <<"\\","\"">> -> <<"\"">>
      [] OTHER -> atom

\* the characters of the string a body of atoms stands for
DecodedBody(body) == Join(<<>>, [i \in 1..Len(body) |-> Decoded(body[i])])

\* C18: the normalizer turns a single-quoted string into a double-quoted one (an escaped
\* single quote becomes the quote, an escaped double quote stays escaped, a bare double
\* quote is escaped) and copies a double-quoted string unchanged, so that the literal parses
\* to the string its body stands for; and {name: 'O\'Brien', note: "she said \"hi\""}
\* normalizes to JSON that parses to {"name": "O'Brien", "note": "she said \"hi\""}
C18_QuotesNormalized ==
    (call.op = "js_to_dict" /\ ret.kind = "returned") =>
        /\ call.quote # "" =>
               ret.value = PDict(<<<<"k">>>>, <<PStr(DecodedBody(call.body))>>)
        /\ call.quote = "\"" => ret.s = <<"{"," ","\"","k","\"",":">> \o Slice(call.js_str, 3, Len(call.js_str))
        /\ call.js_str = RoundTripLiteral =>
               /\ ret.s = <<"{"," ","\"","n","a","m","e","\"",":"," ","\"","O","'","B","r","i","e","n","\"",","," ","\"","n","o","t","e","\"",":"," ","\"","s","h","e"," ","s","a","i","d"," ","\\","\"","h","i","\\","\"","\"","}">>
               /\ ret.value = PDict(<<<<"n","a","m","e">>, <<"n","o","t","e">>>>,
                                    <<PStr(<<"O","'","B","r","i","e","n">>), PStr(<<"s","h","e"," ","s","a","i","d"," ","\"","h","i","\"">>)>>)

\* the literal of the round-trip property has been normalized and parsed to a dict whose
\* name holds a single quote
C18_RoundTripParsed ==
    /\ call.op = "js_to_dict"
    /\ call.js_str = RoundTripLiteral
    /\ ret.kind = "returned"
    /\ IsDict(ret.value)
    /\ Contains(Get(ret.value, <<"n","a","m","e">>).s, <<"'">>)

\* ------------------------------------------------------------------ C19

\* the heap with the content of passage id replaced
WithContent(h, id, content) == [h EXCEPT ![id].content = content]

\* the score the list scored gives to passage id
ScoreIn(scored, id) == scored[CHOOSE j \in 1..Len(scored) : scored[j][2] = id][1]

\* the score of the candidate at place when its content is content and all other
\* candidates are as in the call
Rescored(place, content) ==
    DocScore(BM25(WithContent(heap, call.passages[place], content), call.passages),
             place, _tokenize(call.query))

\* the content of the candidate at place with one more occurrence of term, after its end
Appended(place, term) == heap[call.passages[place]].content \o <<" ">> \o term

\* the content of the candidate at place with its j-th token replaced by term
Replaced(place, j, term) ==
    Join(<<" ">>, [_tokenize(heap[call.passages[place]].content) EXCEPT ![j] = term])

\* the j-th token of the candidate at place is not term and not a token of the query
Replaceable(place, j, term) ==
    LET token == _tokenize(heap[call.passages[place]].content)[j]
    IN  token # term /\ token \notin Range(_tokenize(call.query))

Scored == call.op = "score" /\ ret.kind = "returned"

\* C19 as stated: one more occurrence of a term in one candidate's content never lowers
\* the score BM25.score gives that candidate (fails: the occurrence lengthens the document)
C19_OccurrenceNeverLowers ==
    Scored =>
        \A place \in 1..Len(call.passages), term \in Vocabulary :
            Rescored(place, Appended(place, term)) >= ScoreIn(ret.value, call.passages[place])

\* C19: the score of a candidate does not fall when a token of its content that is not a
\* query term is replaced by an occurrence of a term (the document keeps its length), nor
\* when an occurrence of the query's only term is added to it
C19_FrequencyNeverLowers ==
    Scored =>
        \A place \in 1..Len(call.passages), term \in Vocabulary :
            /\ \A j \in 1..Len(_tokenize(heap[call.passages[place]].content)) :
                   Replaceable(place, j, term) =>
                       Rescored(place, Replaced(place, j, term))
                           >= ScoreIn(ret.value, call.passages[place])
            /\ Range(_tokenize(call.query)) = {term} =>
                   Rescored(place, Appended(place, term))
                       >= ScoreIn(ret.value, call.passages[place])

\* a candidate that has the query's only term gains by a second occurrence in place of
\* another token, and gains by one added to it
C19_ScoreGrows ==
    /\ Scored
    /\ call.query = <<"r","i","s","k">>
    /\ Len(call.passages) = 2
    /\ _tokenize(heap[call.passages[1]].content) = <<<<"r","i","s","k">>, <<"a","c","m","e">>>>
    /\ ScoreIn(ret.value, call.passages[1]) > 0
    /\ Rescored(1, Replaced(1, 2, <<"r","i","s","k">>)) > ScoreIn(ret.value, call.passages[1])
    /\ Rescored(1, Appended(1, <<"r","i","s","k">>)) > ScoreIn(ret.value, call.passages[1])

\* ------------------------------------------------------------------ C20

\* the text from the start offset of the call on
FromStart == Slice(call.text, call.start, Len(call.text))

\* the nesting depth of s after its k-th character, braces at the positions lits apart
Depth(s, lits, k) ==
    Cardinality({i \in 1..k : s[i] = "{"} \ lits) - Cardinality({i \in 1..k : s[i] = "}"} \ lits)

\* the positions of the closing braces of s, outside the positions lits, at which the
\* nesting depth is back to zero
Closes(s, lits) == {k \in 1..Len(s) : s[k] = "}" /\ k \notin lits /\ Depth(s, lits, k) = 0}

\* s up to and including the first such closing brace, the empty text when there is none
BalancedBlock(s, lits) ==
    IF Closes(s, lits) = {} THEN <<>>
    ELSE SubSeq(s, 1, CHOOSE k \in Closes(s, lits) : \A m \in Closes(s, lits) : k <= m)

\* C20: called at an opening brace, the extractor returns the text from there up to and
\* including the first closing brace that brings the nesting depth back to zero, braces
\* in quoted string literals not counted and a backslash in a literal taking the next
\* character with it; it returns the empty text when there is no such brace; every call
\* returns
C20_ReturnsBalancedBlock ==
    (call.op = "extract" /\ ret.kind # "none"
       /\ call.start < Len(call.text) /\ At(call.text, call.start) = "{") =>
        /\ ret.kind = "returned"
        /\ ret.value = BalancedBlock(FromStart, InLiteral(FromStart, 1, "", {}))

\* called at an opening brace, the extractor has returned the empty text because the
\* quote before the closing brace is escaped: the literal is still open at the brace
C20_EscapedQuoteKeepsLiteralOpen ==
    /\ call.op = "extract"
    /\ ret.kind = "returned"
    /\ call.start < Len(call.text)
    /\ At(call.text, call.start) = "{"
    /\ ret.value = <<>>
    /\ \E i \in 2..(Len(FromStart) - 2) :
           /\ FromStart[i] \in {"'", "\""}
           /\ FromStart[i + 1] = "\\"
           /\ FromStart[i + 2] = FromStart[i]
           /\ \E k \in (i + 3)..Len(FromStart) : FromStart[k] = "}"

\* ------------------------------------------------------------------ C21

\* the record holds a value for the key that is not null and not empty
Present(data, key) == Truthy(Get(data, key))

\* the field-group the passage p renders is present in the arguments of the call c
GroupPresent(p, c) ==
    CASE p.section = <<"o","v","e","r","v","i","e","w">> /\ p.subsection = PStr(<<"k","e","y","_","m","e","t","r","i","c","s">>) ->
             Present(c.data, <<"h","e","r","o","M","e","t","r","i","c","s">>)
      [] p.section = <<"o","v","e","r","v","i","e","w">> /\ p.subsection # PStr(<<"k","e","y","_","m","e","t","r","i","c","s">>) ->
             \E key \in {<<"c","o","m","p","a","n","y">>, <<"s","e","c","t","o","r">>, <<"h","e","r","o","D","e","s","c","r","i","p","t","i","o","n">>, <<"h","e","r","o","C","o","m","p","a","n","y","D","e","s","c","r","i","p","t","i","o","n">>,
                         <<"i","d","e","n","t","i","t","y">>} : Present(c.data, key)
      [] p.section = <<"i","d","e","n","t","i","t","y">> -> Present(c.data, <<"i","d","e","n","t","i","t","y">>)
      [] p.section = <<"v","e","r","d","i","c","t">> /\ p.subsection = PStr(<<"s","k","e","w">>) -> Present(c.data, <<"s","k","e","w">>)
      [] p.section = <<"v","e","r","d","i","c","t">> /\ p.subsection # PStr(<<"s","k","e","w">>) -> Present(c.data, <<"v","e","r","d","i","c","t">>)
      [] p.section = <<"h","y","p","o","t","h","e","s","i","s">> -> Present(c.data, <<"h","y","p","o","t","h","e","s","e","s">>)
      [] p.section = <<"n","a","r","r","a","t","i","v","e">> -> Present(c.data, <<"n","a","r","r","a","t","i","v","e">>)
      [] p.section = <<"e","v","i","d","e","n","c","e">> -> Present(c.data, <<"e","v","i","d","e","n","c","e">>)
      [] p.section = <<"d","i","s","c","r","i","m","i","n","a","t","o","r">> -> Present(c.data, <<"d","i","s","c","r","i","m","i","n","a","t","o","r","s">>)
      [] p.section = <<"t","r","i","p","w","i","r","e">> -> Present(c.data, <<"t","r","i","p","w","i","r","e","s">>)
      [] p.section = <<"g","a","p","s">> -> Present(c.data, <<"g","a","p","s">>)
      [] p.section = <<"t","e","c","h","n","i","c","a","l">> -> Present(c.data, <<"t","e","c","h","n","i","c","a","l","A","n","a","l","y","s","i","s">>)
      [] p.section = <<"r","e","f","e","r","e","n","c","e">> -> Truthy(c.ref)
      [] p.section = <<"f","r","e","s","h","n","e","s","s">> -> Truthy(c.fresh)
      [] OTHER -> FALSE

\* the record {company:'Acme Corp', sector:'Industrials'}
AcmeRecord == PDict(<<<<"c","o","m","p","a","n","y">>, <<"s","e","c","t","o","r">>>>, <<PStr(<<"A","c","m","e"," ","C","o","r","p">>), PStr(<<"I","n","d","u","s","t","r","i","a","l","s">>)>>)

\* the one passage of the ticker whose record is AcmeRecord
AcmePassage(ticker) ==
    [ticker |-> ticker, section |-> <<"o","v","e","r","v","i","e","w">>, subsection |-> PStr(<<"c","o","m","p","a","n","y","_","d","e","s","c","r","i","p","t","i","o","n">>),
     content |-> <<"A","c","m","e"," ","C","o","r","p"," ","(","A","S","X",":"," ">> \o ticker \o <<")","\n","S","e","c","t","o","r",":"," ","I","n","d","u","s","t","r","i","a","l","s">>,
     tags |-> <<PStr(<<"o","v","e","r","v","i","e","w">>), PStr(<<"f","u","n","d","a","m","e","n","t","a","l","s">>)>>, weight |-> 1000]

\* the chunker has returned passages of present field-groups only
ChunkedPresentGroups ==
    /\ ret.kind = "returned"
    /\ \A i \in 1..Len(ret.value) : GroupPresent(ret.value[i], call)

\* the ticker whose record holds company 'Acme Corp' and sector 'Industrials' alone has
\* the one overview passage of the scenario
AcmeScenario ==
    (call.data = AcmeRecord /\ call.ref = PNone /\ call.fresh = PNone) =>
        /\ ret.kind = "returned"
        /\ ret.value = <<AcmePassage(call.ticker)>>

\* C21: the chunker returns for every record, with no passage for a field-group that is
\* absent, null or empty, and with the one overview passage of the scenario for the
\* record that holds company and sector alone
C21_AbsentGroupsEmitNothing ==
    (call.op = "chunk" /\ ret.kind # "none") => (ChunkedPresentGroups /\ AcmeScenario)

\* whenever the chunker returns, its passages are of present field-groups only, and the
\* scenario's record gives the scenario's passage
C21_PresentGroupsWhenReturns ==
    (call.op = "chunk" /\ ret.kind = "returned") => (ChunkedPresentGroups /\ AcmeScenario)

\* the chunker raises on a record whose field-groups are each absent, null, empty, or
\* company and sector
C21_RaisesOnNullGroup ==
    /\ call.op = "chunk"
    /\ ret.kind = "raised"
    /\ \A i \in 1..Len(call.data.ks) :
           call.data.ks[i] \in {<<"c","o","m","p","a","n","y">>, <<"s","e","c","t","o","r">>} \/ ~Truthy(call.data.vs[i])

\* ------------------------------------------------------------------ C22

\* the place of the field-group of the passage p in the order of the groups
GroupRank(p) ==
    CASE p.section = <<"o","v","e","r","v","i","e","w">> /\ p.subsection # PStr(<<"k","e","y","_","m","e","t","r","i","c","s">>) -> 1
      [] p.section = <<"o","v","e","r","v","i","e","w">> /\ p.subsection = PStr(<<"k","e","y","_","m","e","t","r","i","c","s">>) -> 2
      [] p.section = <<"i","d","e","n","t","i","t","y">> -> 3
      [] p.section = <<"v","e","r","d","i","c","t">> /\ p.subsection = PStr(<<"s","k","e","w">>) -> 4
      [] p.section = <<"v","e","r","d","i","c","t">> /\ p.subsection # PStr(<<"s","k","e","w">>) -> 5
      [] p.section = <<"h","y","p","o","t","h","e","s","i","s">> -> 6
      [] p.section = <<"n","a","r","r","a","t","i","v","e">> -> 7
      [] p.section = <<"e","v","i","d","e","n","c","e">> /\ p.subsection # PStr(<<"a","l","i","g","n","m","e","n","t","_","s","u","m","m","a","r","y">>) -> 8
      [] p.section = <<"e","v","i","d","e","n","c","e">> /\ p.subsection = PStr(<<"a","l","i","g","n","m","e","n","t","_","s","u","m","m","a","r","y">>) -> 9
      [] p.section = <<"d","i","s","c","r","i","m","i","n","a","t","o","r">> /\ p.subsection # PStr(<<"n","o","n","_","d","i","s","c","r","i","m","i","n","a","t","i","n","g">>) -> 10
      [] p.section = <<"d","i","s","c","r","i","m","i","n","a","t","o","r">> /\ p.subsection = PStr(<<"n","o","n","_","d","i","s","c","r","i","m","i","n","a","t","i","n","g">>) -> 11
      [] p.section = <<"t","r","i","p","w","i","r","e">> -> 12
      [] p.section = <<"g","a","p","s">> -> 13
      [] p.section = <<"t","e","c","h","n","i","c","a","l">> -> 14
      [] p.section = <<"r","e","f","e","r","e","n","c","e">> -> 15
      [] p.section = <<"f","r","e","s","h","n","e","s","s">> -> 16

\* the passages of ps whose group has the rank
OfRank(ps, rank) == SelectSeq(ps, LAMBDA p : GroupRank(p) = rank)

\* the items of the list d holds for key, none when it holds no list
ItemsOf(d, key) == IF IsList(Get(d, key)) THEN Get(d, key).xs ELSE <<>>

\* the dict d holds for key, the empty dict when it holds none
DictOf(d, key) == IF IsDict(Get(d, key)) THEN Get(d, key) ELSE EmptyDict

IsTable(p) == p.tags = <<PStr(<<"e","v","i","d","e","n","c","e">>), PStr(<<"d","a","t","a">>)>> /\ p.weight = Weight(8)

\* the passages are one per hypothesis, in the order of the hypotheses
HypothesesInOrder(ps, hyps) ==
    /\ Len(ps) = Len(hyps)
    /\ \A k \in 1..Len(ps) :
           /\ ps[k].subsection = GetText(hyps[k], <<"t","i","e","r">>)
           /\ ps[k].tags[3] = GetText(hyps[k], <<"d","i","r","e","c","t","i","o","n">>)

\* the passages that are not tables are one per card, in the order of the cards, and the
\* tables are those of the cards that have one, each directly after its card
CardsInOrder(ps, cards) ==
    /\ Len(SelectSeq(ps, LAMBDA p : ~IsTable(p))) = Len(cards)
    /\ \A k \in 1..Len(cards) :
           SelectSeq(ps, LAMBDA p : ~IsTable(p))[k].subsection
               = PStr(<<"c","a","r","d","_">> \o Str(GetText(cards[k], <<"n","u","m","b","e","r">>)))
    /\ Len(SelectSeq(ps, IsTable))
           = Len(SelectSeq(cards, LAMBDA card : Truthy(Get(card, <<"t","a","b","l","e">>))))
    /\ \A i \in 1..Len(ps) :
           IsTable(ps[i]) =>
               /\ i > 1
               /\ ~IsTable(ps[i - 1])
               /\ ps[i].subsection = PStr(ps[i - 1].subsection.s \o <<"_","t","a","b","l","e">>)

\* the passages are one per discriminator row, in the order of the rows
RowsInOrder(ps, rows) ==
    /\ Len(ps) = Len(rows)
    /\ \A k \in 1..Len(ps) :
           /\ ps[k].subsection = PStr(<<"d","i","s","c","_">> \o IntToText(k))
           /\ ps[k].tags[2] = PStr(Lower(GetText(rows[k], <<"d","i","a","g","n","o","s","t","i","c","i","t","y">>).s))

\* the passages are one per tripwire card, in the order of the cards
TripwiresInOrder(ps, cards) ==
    /\ Len(ps) = Len(cards)
    /\ \A k \in 1..Len(ps) : ps[k].subsection = PStr(_clean_html(GetText(cards[k], <<"n","a","m","e">>)))

\* C22: the passages the chunker returns are in the order of the groups: overview, key
\* metrics, identity, skew, verdict, hypotheses, narrative, evidence cards with each
\* card's table directly after it, alignment summary, discriminator rows, non-discriminating,
\* tripwires, gaps, technical, reference, freshness; the passages of a list-valued group
\* are in the order of the items of the record
C22_GroupOrder ==
    (call.op = "chunk" /\ ret.kind = "returned") =>
        /\ \A i \in 1..Len(ret.value) : \A j \in (i + 1)..Len(ret.value) :
               GroupRank(ret.value[i]) <= GroupRank(ret.value[j])
        /\ HypothesesInOrder(OfRank(ret.value, 6), ItemsOf(call.data, <<"h","y","p","o","t","h","e","s","e","s">>))
        /\ CardsInOrder(OfRank(ret.value, 8), ItemsOf(DictOf(call.data, <<"e","v","i","d","e","n","c","e">>), <<"c","a","r","d","s">>))
        /\ RowsInOrder(OfRank(ret.value, 10), ItemsOf(DictOf(call.data, <<"d","i","s","c","r","i","m","i","n","a","t","o","r","s">>), <<"r","o","w","s">>))
        /\ TripwiresInOrder(OfRank(ret.value, 12), ItemsOf(DictOf(call.data, <<"t","r","i","p","w","i","r","e","s">>), <<"c","a","r","d","s">>))

\* the chunker has returned an overview passage, then the passages of two hypotheses of
\* tiers t2 and t1 in the order of the record, and the freshness passage last
C22_HypothesesBetweenGroups ==
    /\ call.op = "chunk"
    /\ ret.kind = "returned"
    /\ Len(ret.value) = 4
    /\ ret.value[1].section = <<"o","v","e","r","v","i","e","w">>
    /\ ret.value[2].section = <<"h","y","p","o","t","h","e","s","i","s">> /\ ret.value[2].subsection = PStr(<<"t","2">>)
    /\ ret.value[3].section = <<"h","y","p","o","t","h","e","s","i","s">> /\ ret.value[3].subsection = PStr(<<"t","1">>)
    /\ ret.value[4].section = <<"f","r","e","s","h","n","e","s","s">>

\* ------------------------------------------------------------------ C23

\* C23: a call of ingest on a document that cannot be opened or read raises, and leaves
\* the per-ticker map, the flattened list and the passages they hold as they were before
\* the call
C23_UnreadableKeepsStore ==
    [][(call'.op = "ingest" /\ ~call'.file.readable) =>
           /\ ret'.kind = "raised"
           /\ _store' = _store
           /\ _all_passages' = _all_passages
           /\ heap' = heap]_vars

\* ingest has raised on an unreadable document and the store holds the corpus of an
\* earlier run: two tickers, and their passages in the flattened list
C23_PreviousCorpusKept ==
    /\ call.op = "ingest"
    /\ ~call.file.readable
    /\ ret.kind = "raised"
    /\ Len(_store.ks) >= 2
    /\ Len(_all_passages) >= 3
    /\ \A i \in 1..Len(_store.ks) :
           \A j \in 1..Len(_store.vs[i].xs) :
               \E n \in 1..Len(_all_passages) : _all_passages[n] = _store.vs[i].xs[j]
====
